---- MODULE Spec2Model ----
(***************************************************************************)
(* Model of the OPINE floating-point codec used by the test oracle:        *)
(*   decodeToMpfr       bit pattern  -> exact value                        *)
(*   mpfrRoundToFormat  exact value  -> bit pattern                        *)
(* (tests/oracle/mpfr_exact.hpp), over the format and encoding             *)
(* descriptions of include/opine/core.                                     *)
(*                                                                         *)
(* Exact MPFR values are modelled as records                               *)
(*   [kind, neg, m, e]   kind \in {"nan","inf","zero","finite"}            *)
(* where a finite value is (-1)^neg * m * 2^e with m odd (MPFR keeps a     *)
(* normalised significand, so equal values are equal records).             *)
(* Bit patterns are naturals; BitsType arithmetic is taken modulo          *)
(* 2^StorageBits.                                                          *)
(***************************************************************************)
EXTENDS Integers, Naturals, Sequences, FiniteSets, TLC

\* the codec run: the Float type, the position, and the values in flight
VARIABLES ft, input, bits, val, out, back, pc
\* a call of an implementation (oracle callable or adapter) and its output
VARIABLES call, ret
\* testAgainst: the iteration strategy, the counts R, the failure buffer, the
\* record of the callback invocations, and the lines written to stderr
VARIABLES iter, counts, Failures, NumReported, log, printed, err
\* a comparator call: the two outputs and the verdicts
VARIABLES OA, OB, verdict
\* an encoding policy and the outcome of the ValidEncoding check
VARIABLES policy, accepted
\* MpfrFloat objects, the mpfr_t values allocated for them, the count of
\* mpz_t temporaries initialised and cleared, and the last operation
VARIABLES objects, heap, mpz, last

codecVars == <<input, bits, val, out, back>>
callVars == <<call, ret>>
harnessVars == <<iter, counts, Failures, NumReported, log, printed, err>>
cmpVars == <<OA, OB, verdict>>
encVars == <<policy, accepted>>
ownVars == <<objects, heap, mpz, last>>

vars ==
  <<ft, pc, codecVars, callVars, harnessVars, cmpVars, encVars, ownVars>>

(***************************************************************************)
(* Bounds of the model                                                     *)
(***************************************************************************)
\* largest integer significand of an exact input value m * 2^e
MaxSig == 40
\* exact input values reach this many binary places below the smallest
\* subnormal and above the largest binade of the format
ExpMargin == 2

(***************************************************************************)
(* Bitwise helpers on naturals                                             *)
(***************************************************************************)
RECURSIVE BitAnd(_, _)
BitAnd(a, b) ==
  IF a = 0 \/ b = 0 THEN 0
  ELSE (a % 2) * (b % 2) + 2 * BitAnd(a \div 2, b \div 2)

RECURSIVE BitOr(_, _)
BitOr(a, b) ==
  IF a = 0 THEN b
  ELSE IF b = 0 THEN a
  ELSE (IF a % 2 = 1 \/ b % 2 = 1 THEN 1 ELSE 0)
       + 2 * BitOr(a \div 2, b \div 2)

RECURSIVE BitXor(_, _)
BitXor(a, b) ==
  IF a = 0 THEN b
  ELSE IF b = 0 THEN a
  ELSE ((a + b) % 2) + 2 * BitXor(a \div 2, b \div 2)

\* number of bits of a positive natural: floor(log2 n) + 1
RECURSIVE BitLength(_)
BitLength(n) == IF n = 0 THEN 0 ELSE 1 + BitLength(n \div 2)

(***************************************************************************)
(* enums.hpp                                                               *)
(***************************************************************************)
SignEncoding == {"SignMagnitude", "TwosComplement", "OnesComplement"}
NegativeZero == {"Exists", "DoesNotExist"}
NanEncoding == {"ReservedExponent", "TrapValue", "NegativeZeroBitPattern",
                "None"}
InfEncoding == {"ReservedExponent", "IntegerExtremes", "None"}
AutoBias == -1

(***************************************************************************)
(* format.hpp: bit geometry                                                *)
(***************************************************************************)
Format(SignBits, SignOffset, ExpBits, ExpOffset, MantBits, MantOffset, TotalBits) ==
  [sign_bits |-> SignBits, sign_offset |-> SignOffset,
   exp_bits |-> ExpBits, exp_offset |-> ExpOffset,
   mant_bits |-> MantBits, mant_offset |-> MantOffset,
   total_bits |-> TotalBits]

IEEE_Layout(ExpBits, MantBits) ==
  Format(1, ExpBits + MantBits, ExpBits, MantBits, MantBits, 0,
         1 + ExpBits + MantBits)

(***************************************************************************)
(* encoding.hpp: the predefined encoding bundles                           *)
(***************************************************************************)
IEEE754 ==
  [sign_encoding |-> "SignMagnitude", has_implicit_bit |-> TRUE,
   exponent_bias |-> AutoBias, negative_zero |-> "Exists",
   nan_encoding |-> "ReservedExponent", inf_encoding |-> "ReservedExponent"]

RbjTwosComplement ==
  [sign_encoding |-> "TwosComplement", has_implicit_bit |-> TRUE,
   exponent_bias |-> AutoBias, negative_zero |-> "DoesNotExist",
   nan_encoding |-> "TrapValue", inf_encoding |-> "IntegerExtremes"]

PDP10 ==
  [sign_encoding |-> "TwosComplement", has_implicit_bit |-> FALSE,
   exponent_bias |-> 128, negative_zero |-> "DoesNotExist",
   nan_encoding |-> "None", inf_encoding |-> "None"]

CDC6600 ==
  [sign_encoding |-> "OnesComplement", has_implicit_bit |-> FALSE,
   exponent_bias |-> 1024, negative_zero |-> "Exists",
   nan_encoding |-> "None", inf_encoding |-> "None"]

E4M3FNUZ ==
  [sign_encoding |-> "SignMagnitude", has_implicit_bit |-> TRUE,
   exponent_bias |-> 8, negative_zero |-> "DoesNotExist",
   nan_encoding |-> "NegativeZeroBitPattern", inf_encoding |-> "None"]

Relaxed ==
  [sign_encoding |-> "SignMagnitude", has_implicit_bit |-> TRUE,
   exponent_bias |-> AutoBias, negative_zero |-> "DoesNotExist",
   nan_encoding |-> "None", inf_encoding |-> "None"]

\* The encoding of extFloat80 (x87 extended): sign-magnitude, explicit
\* leading bit, reserved-exponent NaN and infinity.
X87Extended ==
  [sign_encoding |-> "SignMagnitude", has_implicit_bit |-> FALSE,
   exponent_bias |-> AutoBias, negative_zero |-> "Exists",
   nan_encoding |-> "ReservedExponent", inf_encoding |-> "ReservedExponent"]

(***************************************************************************)
(* float.hpp: a Float type is a format plus an encoding                    *)
(***************************************************************************)
Float(Fmt, Enc) == [format |-> Fmt, encoding |-> Enc]

\* Float::exponent_bias
exponent_bias(FloatType) ==
  IF FloatType.encoding.exponent_bias # AutoBias
    THEN FloatType.encoding.exponent_bias
  ELSE IF FloatType.encoding.sign_encoding = "TwosComplement"
    THEN 2 ^ (FloatType.format.exp_bits - 1)
  ELSE 2 ^ (FloatType.format.exp_bits - 1) - 1

\* bits.hpp (standard-type fallback): width of the storage type holding N bits
BitsStorage(N) ==
  IF N <= 8 THEN 8 ELSE IF N <= 16 THEN 16 ELSE IF N <= 32 THEN 32
  ELSE IF N <= 64 THEN 64 ELSE 128

StorageBits(FloatType) == BitsStorage(FloatType.format.total_bits)

\* The Float types of the model: the library's small formats and small
\* instances of its templates.
fp8_e4m3 == Float(IEEE_Layout(4, 3), IEEE754)
fp6_e3m2 == Float(IEEE_Layout(3, 2), IEEE754)
fp8_e4m3fnuz == Float(IEEE_Layout(4, 3), E4M3FNUZ)
RbjFloat(ExpBits, MantBits) ==
  Float(IEEE_Layout(ExpBits, MantBits), RbjTwosComplement)
FastFloat(ExpBits, MantBits) == Float(IEEE_Layout(ExpBits, MantBits), Relaxed)
\* a layout with padding, as test_types.cpp's padded = Format<1,10,4,3,3,0,12>,
\* in 8 bits: sign at bit 7, exponent in bits 2..4, mantissa in bits 0..1
padded8 == Float(Format(1, 7, 3, 2, 2, 0, 8), IEEE754)
\* fields in the order [M][E][S]: mantissa in bits 4..5, exponent 1..3, sign 0
reversed == Float(Format(1, 0, 3, 1, 2, 4, 6), IEEE754)
pdp10 == Float(IEEE_Layout(3, 3), PDP10)
cdc6600 == Float(IEEE_Layout(3, 3), CDC6600)
extFloat7 == Float(IEEE_Layout(3, 3), X87Extended)

FloatTypes ==
  {fp8_e4m3, fp6_e3m2, fp8_e4m3fnuz, RbjFloat(3, 2), RbjFloat(4, 3),
   FastFloat(3, 2), padded8, reversed, pdp10, cdc6600, extFloat7}

(***************************************************************************)
(* Exact values (MpfrFloat)                                                *)
(***************************************************************************)
NaN == [kind |-> "nan", neg |-> FALSE, m |-> 0, e |-> 0]
Inf(Negative) == [kind |-> "inf", neg |-> Negative, m |-> 0, e |-> 0]
Zero(Negative) == [kind |-> "zero", neg |-> Negative, m |-> 0, e |-> 0]

RECURSIVE TrailingZeros(_)
TrailingZeros(n) == IF n % 2 = 1 THEN 0 ELSE 1 + TrailingZeros(n \div 2)

\* mpfr_set_z_2exp(Result, Z, Exponent, MPFR_RNDN): Z * 2^Exponent, exact at
\* the working precision; a zero Z gives +0
mpfr_set_z_2exp(Z, Exponent) ==
  IF Z = 0 THEN Zero(FALSE)
  ELSE LET t == TrailingZeros(Z)
       IN [kind |-> "finite", neg |-> FALSE, m |-> Z \div (2 ^ t),
           e |-> Exponent + t]

\* mpfr_neg: flips the sign, also of a zero
mpfr_neg(V) == IF V.kind = "nan" THEN V ELSE [V EXCEPT !.neg = ~V.neg]

isNan(V) == V.kind = "nan"
isInf(V) == V.kind = "inf"
isZero(V) == V.kind = "zero"
isNegative(V) == V.neg

(***************************************************************************)
(* detail::extractField                                                    *)
(***************************************************************************)
extractField(Bits, Offset, Width) ==
  IF Width = 0 THEN 0
  ELSE BitAnd(Bits \div (2 ^ Offset), 2 ^ Width - 1)

(***************************************************************************)
(* decodeToMpfr: convert a bit pattern to its exact value                  *)
(***************************************************************************)
\* all-ones word of the format (WordMask)
WordMask(FloatType) == 2 ^ FloatType.format.total_bits - 1

\* two's complement negation of a word: (WordMask - Bits + 1) & WordMask,
\* or ~Bits + 1 when the format fills the storage type
NegateWord(FloatType, Bits) ==
  IF FloatType.format.total_bits < StorageBits(FloatType)
    THEN BitAnd(WordMask(FloatType) - Bits + 1, WordMask(FloatType))
    ELSE ((2 ^ StorageBits(FloatType) - 1 - Bits) + 1)
           % (2 ^ StorageBits(FloatType))

\* InfEncoding::IntegerExtremes: NegInf is the two's complement of
\* PosInf = 2^(TotalBits-1) - 1
\* (variant: the complement ~PosInf without the "+ 1")
NegInfPattern_noIncrement(FloatType) ==
  2 ^ FloatType.format.total_bits - 2 ^ (FloatType.format.total_bits - 1)

NegInfPattern(FloatType) ==
  LET PosInf == 2 ^ (FloatType.format.total_bits - 1) - 1
  IN IF FloatType.format.total_bits < StorageBits(FloatType)
       THEN BitAnd(WordMask(FloatType) - PosInf + 1, WordMask(FloatType))
       ELSE ((2 ^ StorageBits(FloatType) - 1 - PosInf) + 1)
              % (2 ^ StorageBits(FloatType))

\* Phase 2: the magnitude fields <<MagExp, MagMant>> under the sign encoding
MagnitudeFields(FloatType, Bits) ==
  LET Fmt == FloatType.format
      Enc == FloatType.encoding
      RawSign == extractField(Bits, Fmt.sign_offset, Fmt.sign_bits)
      IsNegative == RawSign # 0
  IN IF Enc.sign_encoding = "SignMagnitude" THEN
       <<extractField(Bits, Fmt.exp_offset, Fmt.exp_bits),
         extractField(Bits, Fmt.mant_offset, Fmt.mant_bits)>>
     ELSE IF Enc.sign_encoding = "TwosComplement" THEN
       IF IsNegative THEN
         LET Positive == NegateWord(FloatType, Bits)
         IN <<extractField(Positive, Fmt.exp_offset, Fmt.exp_bits),
              extractField(Positive, Fmt.mant_offset, Fmt.mant_bits)>>
       ELSE
         <<extractField(Bits, Fmt.exp_offset, Fmt.exp_bits),
           extractField(Bits, Fmt.mant_offset, Fmt.mant_bits)>>
     ELSE \* OnesComplement
       IF IsNegative THEN
         LET ExpMask == 2 ^ Fmt.exp_bits - 1
             MantMask == 2 ^ Fmt.mant_bits - 1
         IN <<BitXor(extractField(Bits, Fmt.exp_offset, Fmt.exp_bits),
                     ExpMask),
              BitXor(extractField(Bits, Fmt.mant_offset, Fmt.mant_bits),
                     MantMask)>>
       ELSE
         <<extractField(Bits, Fmt.exp_offset, Fmt.exp_bits),
           extractField(Bits, Fmt.mant_offset, Fmt.mant_bits)>>

\* Phase 3, infinity identified by field values (InfEncoding::ReservedExponent)
IsReservedInf(FloatType, MagExp, MagMant) ==
  LET Fmt == FloatType.format
      ExpMax == 2 ^ Fmt.exp_bits - 1
  IN IF FloatType.encoding.has_implicit_bit
       THEN MagExp = ExpMax /\ MagMant = 0
       ELSE LET JBit == 2 ^ (Fmt.mant_bits - 1)
                FracMask == JBit - 1
            IN /\ MagExp = ExpMax
               /\ BitAnd(MagMant, JBit) # 0
               /\ BitAnd(MagMant, FracMask) = 0

\* Phase 3, NaN identified by field values (NanEncoding::ReservedExponent)
IsReservedNan(FloatType, MagExp, MagMant) ==
  LET Fmt == FloatType.format
      ExpMax == 2 ^ Fmt.exp_bits - 1
  IN IF FloatType.encoding.has_implicit_bit
       THEN MagExp = ExpMax /\ MagMant # 0
       ELSE /\ MagExp = ExpMax
            /\ LET JBit == 2 ^ (Fmt.mant_bits - 1)
                   FracMask == JBit - 1
                   IsInf == /\ BitAnd(MagMant, JBit) # 0
                            /\ BitAnd(MagMant, FracMask) = 0
               IN ~IsInf /\ MagMant # 0

\* (variant: the explicit-bit branch scales by mant_bits like the
\* implicit-bit branch, instead of mant_bits - 1)
DecodeFinite_sameScale(FloatType, IsNegative, MagExp, MagMant) ==
  LET Fmt == FloatType.format
      Bias == exponent_bias(FloatType)
      Exponent == IF MagExp = 0 THEN 1 - Bias - Fmt.mant_bits
                                ELSE MagExp - Bias - Fmt.mant_bits
      Mantissa ==
        IF FloatType.encoding.has_implicit_bit
          THEN IF MagExp = 0 THEN MagMant
                             ELSE BitOr(2 ^ Fmt.mant_bits, MagMant)
          ELSE MagMant
      Result == mpfr_set_z_2exp(Mantissa, Exponent)
  IN IF IsNegative THEN mpfr_neg(Result) ELSE Result

\* (variant: the final mpfr_neg for a set sign is missing)
DecodeFinite_dropSign(FloatType, IsNegative, MagExp, MagMant) ==
  LET Fmt == FloatType.format
      Bias == exponent_bias(FloatType)
      Exponent ==
        IF FloatType.encoding.has_implicit_bit
          THEN IF MagExp = 0 THEN 1 - Bias - Fmt.mant_bits
                             ELSE MagExp - Bias - Fmt.mant_bits
          ELSE IF MagExp = 0 THEN 1 - Bias - (Fmt.mant_bits - 1)
                             ELSE MagExp - Bias - (Fmt.mant_bits - 1)
      Mantissa ==
        IF FloatType.encoding.has_implicit_bit
          THEN IF MagExp = 0 THEN MagMant
                             ELSE BitOr(2 ^ Fmt.mant_bits, MagMant)
          ELSE MagMant
  IN mpfr_set_z_2exp(Mantissa, Exponent)

\* Phase 5: the finite value of the magnitude fields, sign applied
DecodeFinite(FloatType, IsNegative, MagExp, MagMant) ==
  LET Fmt == FloatType.format
      Bias == exponent_bias(FloatType)
      Exponent ==
        IF FloatType.encoding.has_implicit_bit
          THEN IF MagExp = 0 THEN 1 - Bias - Fmt.mant_bits
                             ELSE MagExp - Bias - Fmt.mant_bits
          ELSE IF MagExp = 0 THEN 1 - Bias - (Fmt.mant_bits - 1)
                             ELSE MagExp - Bias - (Fmt.mant_bits - 1)
      Mantissa ==
        IF FloatType.encoding.has_implicit_bit
          THEN IF MagExp = 0 THEN MagMant
                             ELSE BitOr(2 ^ Fmt.mant_bits, MagMant)
          ELSE MagMant
      Result == mpfr_set_z_2exp(Mantissa, Exponent)
  IN IF IsNegative THEN mpfr_neg(Result) ELSE Result

decodeToMpfr(FloatType, RawBits) ==
  LET Fmt == FloatType.format
      Enc == FloatType.encoding
      TotalBits == Fmt.total_bits
      Bits == IF TotalBits < StorageBits(FloatType)
                THEN BitAnd(RawBits, WordMask(FloatType)) ELSE RawBits
      TrapValue == 2 ^ (TotalBits - 1)
      PosInf == 2 ^ (TotalBits - 1) - 1
      NegInf == NegInfPattern(FloatType)
      RawSign == extractField(Bits, Fmt.sign_offset, Fmt.sign_bits)
      RawExp == extractField(Bits, Fmt.exp_offset, Fmt.exp_bits)
      RawMant == extractField(Bits, Fmt.mant_offset, Fmt.mant_bits)
      IsNegative == RawSign # 0
      Mag == MagnitudeFields(FloatType, Bits)
      MagExp == Mag[1]
      MagMant == Mag[2]
  IN \* Phase 1: special values identified by the complete bit pattern
     IF Enc.nan_encoding = "TrapValue" /\ Bits = TrapValue THEN NaN
     ELSE IF Enc.inf_encoding = "IntegerExtremes" /\ Bits = PosInf
       THEN Inf(FALSE)
     ELSE IF Enc.inf_encoding = "IntegerExtremes" /\ Bits = NegInf
       THEN Inf(TRUE)
     ELSE IF /\ Enc.nan_encoding = "NegativeZeroBitPattern"
             /\ RawSign # 0 /\ RawExp = 0 /\ RawMant = 0
       THEN NaN
     \* Phase 3: special values identified by field values
     ELSE IF /\ Enc.inf_encoding = "ReservedExponent"
             /\ IsReservedInf(FloatType, MagExp, MagMant)
       THEN Inf(IsNegative)
     ELSE IF /\ Enc.nan_encoding = "ReservedExponent"
             /\ IsReservedNan(FloatType, MagExp, MagMant)
       THEN NaN
     \* Phase 4: zero detection
     ELSE IF MagExp = 0 /\ MagMant = 0
       THEN IF Enc.negative_zero = "Exists" THEN Zero(IsNegative)
                                            ELSE Zero(FALSE)
     \* Phase 5: finite value
     ELSE DecodeFinite(FloatType, IsNegative, MagExp, MagMant)

(***************************************************************************)
(* mpfrRoundToFormat: round an exact value to a bit pattern of the format  *)
(***************************************************************************)
\* BitsType left shift: bits shifted out of the storage type are lost
ShiftLeft(FloatType, X, N) == (X * 2 ^ N) % (2 ^ StorageBits(FloatType))

\* detail::mpzToBits: the low bytes of Z that fit the storage type
mpzToBits(FloatType, Z) == Z % (2 ^ StorageBits(FloatType))

\* (variant: the scaled value is truncated toward zero)
RintScaled_truncate(M, S) ==
  IF S >= 0 THEN M * 2 ^ S ELSE M \div (2 ^ (0 - S))

\* (variant: a tie is rounded away from zero)
RintScaled_tiesAway(M, S) ==
  IF S >= 0 THEN M * 2 ^ S
  ELSE LET D == 2 ^ (0 - S)
           Q == M \div D
           R == M % D
       IN IF 2 * R >= D THEN Q + 1 ELSE Q

\* mpfr_mul_2si followed by mpfr_rint(MPFR_RNDN) and mpfr_get_z:
\* the integer nearest to M * 2^S, ties to even
RintScaled(M, S) ==
  IF S >= 0 THEN M * 2 ^ S
  ELSE LET D == 2 ^ (0 - S)
           Q == M \div D
           R == M % D
       IN IF 2 * R > D \/ (2 * R = D /\ Q % 2 = 1) THEN Q + 1 ELSE Q

\* largest biased exponent of a finite value
MaxBiasedExp(FloatType) ==
  IF \/ FloatType.encoding.nan_encoding = "ReservedExponent"
     \/ FloatType.encoding.inf_encoding = "ReservedExponent"
    THEN 2 ^ FloatType.format.exp_bits - 2
    ELSE 2 ^ FloatType.format.exp_bits - 1

RoundingMantBits(FloatType) ==
  IF FloatType.encoding.has_implicit_bit
    THEN FloatType.format.mant_bits
    ELSE FloatType.format.mant_bits - 1

EminIeee(FloatType) == 1 - exponent_bias(FloatType)

\* the pattern returned for a NaN input
RoundNan(FloatType) ==
  LET Fmt == FloatType.format
      ExpAllOnes == 2 ^ Fmt.exp_bits - 1
  IN IF FloatType.encoding.nan_encoding = "ReservedExponent"
       THEN IF FloatType.encoding.has_implicit_bit
              THEN BitOr(ShiftLeft(FloatType, ExpAllOnes, Fmt.exp_offset),
                         ShiftLeft(FloatType, 1, Fmt.mant_bits - 1))
              ELSE LET JBit == ShiftLeft(FloatType, 1, Fmt.mant_bits - 1)
                       QuietBit == ShiftLeft(FloatType, 1, Fmt.mant_bits - 2)
                   IN BitOr(BitOr(ShiftLeft(FloatType, ExpAllOnes,
                                            Fmt.exp_offset), JBit), QuietBit)
       ELSE 0

\* (variant: without an infinity encoding the sign bit alone is returned)
RoundInf_keepSign(FloatType, Negative) ==
  LET Fmt == FloatType.format
      ExpAllOnes == 2 ^ Fmt.exp_bits - 1
      InfBits == IF FloatType.encoding.has_implicit_bit
                   THEN ShiftLeft(FloatType, ExpAllOnes, Fmt.exp_offset)
                   ELSE BitOr(ShiftLeft(FloatType, ExpAllOnes, Fmt.exp_offset),
                              ShiftLeft(FloatType, 1, Fmt.mant_bits - 1))
      Result == IF FloatType.encoding.inf_encoding = "ReservedExponent"
                  THEN InfBits ELSE 0
  IN IF Negative
       THEN BitOr(Result, ShiftLeft(FloatType, 1, Fmt.sign_offset))
       ELSE Result

\* the pattern returned for an infinite input and on overflow
RoundInf(FloatType, Negative) ==
  LET Fmt == FloatType.format
      ExpAllOnes == 2 ^ Fmt.exp_bits - 1
      InfBits == IF FloatType.encoding.has_implicit_bit
                   THEN ShiftLeft(FloatType, ExpAllOnes, Fmt.exp_offset)
                   ELSE BitOr(ShiftLeft(FloatType, ExpAllOnes, Fmt.exp_offset),
                              ShiftLeft(FloatType, 1, Fmt.mant_bits - 1))
  IN IF FloatType.encoding.inf_encoding = "ReservedExponent"
       THEN IF Negative
              THEN BitOr(InfBits, ShiftLeft(FloatType, 1, Fmt.sign_offset))
              ELSE InfBits
       ELSE 0

\* (variant: the sign of a zero is kept whatever negative_zero says)
RoundZero_keepSign(FloatType, Negative) ==
  IF Negative
    THEN BitOr(0, ShiftLeft(FloatType, 1, FloatType.format.sign_offset))
    ELSE 0

\* the pattern returned for a zero input and on underflow to zero
RoundZero(FloatType, Negative) ==
  IF Negative /\ FloatType.encoding.negative_zero = "Exists"
    THEN BitOr(0, ShiftLeft(FloatType, 1, FloatType.format.sign_offset))
    ELSE 0

\* assembly of the result word from the sign and the stored fields
PackResult(FloatType, Negative, StoredExp, StoredMant) ==
  LET Fmt == FloatType.format
      R0 == IF Negative THEN ShiftLeft(FloatType, 1, Fmt.sign_offset) ELSE 0
      R1 == BitOr(R0, ShiftLeft(FloatType, StoredExp, Fmt.exp_offset))
  IN BitOr(R1, ShiftLeft(FloatType, StoredMant, Fmt.mant_offset))

\* (variant: a carry out of the significand halves it without incrementing
\* the exponent)
RoundNormal_sameBinade(FloatType, Val, IeeeExp0) ==
  LET Fmt == FloatType.format
      MantMask == 2 ^ Fmt.mant_bits - 1
      RMB == RoundingMantBits(FloatType)
      IntSig0 == mpzToBits(FloatType,
                           RintScaled(Val.m, Val.e + RMB - IeeeExp0))
      Carry == IntSig0 >= 2 ^ (RMB + 1)
      IntSig == IF Carry THEN IntSig0 \div 2 ELSE IntSig0
      BiasedExp == IeeeExp0 + exponent_bias(FloatType)
  IN IF BiasedExp > MaxBiasedExp(FloatType)
       THEN RoundInf(FloatType, Val.neg)
       ELSE PackResult(FloatType, Val.neg, BiasedExp,
                       BitAnd(IntSig, MantMask))

\* finite non-zero value, normal range (IeeeExp >= EminIeee)
RoundNormal(FloatType, Val, IeeeExp0) ==
  LET Fmt == FloatType.format
      MantMask == 2 ^ Fmt.mant_bits - 1
      RMB == RoundingMantBits(FloatType)
      \* |Val| * 2^(RMB - IeeeExp), rounded to an integer
      IntSig0 == mpzToBits(FloatType,
                           RintScaled(Val.m, Val.e + RMB - IeeeExp0))
      Carry == IntSig0 >= 2 ^ (RMB + 1)
      IeeeExp == IF Carry THEN IeeeExp0 + 1 ELSE IeeeExp0
      IntSig == IF Carry THEN IntSig0 \div 2 ELSE IntSig0
      BiasedExp == IeeeExp + exponent_bias(FloatType)
  IN IF BiasedExp > MaxBiasedExp(FloatType)
       THEN RoundInf(FloatType, Val.neg)
       ELSE PackResult(FloatType, Val.neg, BiasedExp,
                       BitAnd(IntSig, MantMask))

\* (variant: a subnormal that rounds up to the smallest normal keeps
\* exponent field 0, and the mantissa field wraps)
RoundSubnormal_wrap(FloatType, Val) ==
  LET Fmt == FloatType.format
      RMB == RoundingMantBits(FloatType)
      Mant == mpzToBits(FloatType,
                RintScaled(Val.m,
                           Val.e + exponent_bias(FloatType) - 1 + RMB))
  IN IF Mant % (2 ^ RMB) = 0 THEN RoundZero(FloatType, Val.neg)
     ELSE PackResult(FloatType, Val.neg, 0, Mant % (2 ^ RMB))

\* finite non-zero value, subnormal range (IeeeExp < EminIeee)
RoundSubnormal(FloatType, Val) ==
  LET Fmt == FloatType.format
      RMB == RoundingMantBits(FloatType)
      Mant == mpzToBits(FloatType,
                RintScaled(Val.m,
                           Val.e + exponent_bias(FloatType) - 1 + RMB))
  IN IF FloatType.encoding.has_implicit_bit
       THEN IF Mant >= 2 ^ Fmt.mant_bits
              THEN PackResult(FloatType, Val.neg, 1, 0)
            ELSE IF Mant = 0 THEN RoundZero(FloatType, Val.neg)
            ELSE PackResult(FloatType, Val.neg, 0, Mant)
       ELSE IF Mant >= 2 ^ (Fmt.mant_bits - 1)
              THEN PackResult(FloatType, Val.neg, 1,
                              ShiftLeft(FloatType, 1, Fmt.mant_bits - 1))
            ELSE IF Mant = 0 THEN RoundZero(FloatType, Val.neg)
            ELSE PackResult(FloatType, Val.neg, 0, Mant)

mpfrRoundToFormat(FloatType, Val) ==
  IF isNan(Val) THEN RoundNan(FloatType)
  ELSE IF isInf(Val) THEN RoundInf(FloatType, isNegative(Val))
  ELSE IF isZero(Val) THEN RoundZero(FloatType, isNegative(Val))
  ELSE LET MpfrExp == Val.e + BitLength(Val.m)   \* mpfr_get_exp
           IeeeExp == MpfrExp - 1
       IN IF IeeeExp >= EminIeee(FloatType)
            THEN RoundNormal(FloatType, Val, IeeeExp)
            ELSE RoundSubnormal(FloatType, Val)

(***************************************************************************)
(* The codec run: a bit pattern is decoded, the exact value is rounded     *)
(* back to the format and the result is decoded again; or an exact value   *)
(* (the result of an exact operation) is rounded and the result decoded.   *)
(***************************************************************************)
NoValue == [kind |-> "none", neg |-> FALSE, m |-> 0, e |-> 0]
NoBits == -1

\* all bit patterns of the format
Patterns(FloatType) == 0 .. WordMask(FloatType)

\* exponent of the all-ones exponent field, and the exponents of the
\* bounded exact input values
TopExp(FloatType) ==
  2 ^ FloatType.format.exp_bits - 1 - exponent_bias(FloatType)
ValueExpLo(FloatType) ==
  EminIeee(FloatType) - RoundingMantBits(FloatType) - ExpMargin
ValueExpHi(FloatType) ==
  TopExp(FloatType) - RoundingMantBits(FloatType) + ExpMargin

FiniteValues(FloatType) ==
  { [kind |-> "finite", neg |-> s, m |-> m, e |-> e] :
      s \in BOOLEAN,
      m \in {k \in 1 .. MaxSig : k % 2 = 1},
      e \in ValueExpLo(FloatType) .. ValueExpHi(FloatType) }

ExactValues(FloatType) ==
  {NaN, Inf(FALSE), Inf(TRUE), Zero(FALSE), Zero(TRUE)}
    \cup FiniteValues(FloatType)

\* the parts of the state that a run of one component leaves untouched
NotInUse == "-"
CodecIdle ==
  /\ input = NotInUse /\ bits = NoBits /\ val = NoValue
  /\ out = NoBits /\ back = NoValue
CallIdle == call = NotInUse /\ ret = NotInUse
HarnessIdle ==
  /\ iter = NotInUse /\ counts = NotInUse /\ Failures = <<>> /\ NumReported = 0
  /\ log = <<>> /\ printed = <<>> /\ err = <<>>
CmpIdle == OA = NotInUse /\ OB = NotInUse /\ verdict = NotInUse
EncIdle == policy = NotInUse /\ accepted = NotInUse
OwnIdle ==
  /\ objects = NotInUse /\ heap = NotInUse /\ mpz = NotInUse
  /\ last = NotInUse

Init ==
  /\ ft \in FloatTypes
  /\ pc = "start"
  /\ \/ input = "bits" /\ bits \in Patterns(ft) /\ val = NoValue
     \/ input = "value" /\ bits = NoBits /\ val \in ExactValues(ft)
  /\ out = NoBits
  /\ back = NoValue
  /\ CallIdle /\ HarnessIdle /\ CmpIdle /\ EncIdle /\ OwnIdle

\* MpfrFloat V = decodeToMpfr<FloatType>(Bits)
Decode ==
  /\ pc = "start" /\ input = "bits"
  /\ val' = decodeToMpfr(ft, bits)
  /\ pc' = "decoded"
  /\ UNCHANGED <<ft, input, bits, out, back>>
  /\ UNCHANGED <<callVars, harnessVars, cmpVars, encVars, ownVars>>

\* BitsType R = mpfrRoundToFormat<FloatType>(V)
Round ==
  /\ pc = IF input = "bits" THEN "decoded" ELSE "start"
  /\ out' = mpfrRoundToFormat(ft, val)
  /\ pc' = "rounded"
  /\ UNCHANGED <<ft, input, bits, val, back>>
  /\ UNCHANGED <<callVars, harnessVars, cmpVars, encVars, ownVars>>

\* MpfrFloat W = decodeToMpfr<FloatType>(R)
Redecode ==
  /\ pc = "rounded"
  /\ back' = decodeToMpfr(ft, out)
  /\ pc' = "done"
  /\ UNCHANGED <<ft, input, bits, val, out>>
  /\ UNCHANGED <<callVars, harnessVars, cmpVars, encVars, ownVars>>

Next == Decode \/ Round \/ Redecode

Spec == Init /\ [][Next]_vars

TypeOK ==
  /\ ft \in FloatTypes
  /\ pc \in {"start", "decoded", "rounded", "done"}
  /\ input \in {"bits", "value"}
  /\ out \in {NoBits} \cup Patterns(ft)

(***************************************************************************)
(* Helpers of the properties                                               *)
(***************************************************************************)
Decoded == pc \in {"decoded", "rounded", "done"} /\ input = "bits"
Rounded == pc \in {"rounded", "done"}

IsIEEE754(FloatType) == FloatType.encoding = IEEE754
IsX87(FloatType) == FloatType.encoding = X87Extended

\* raw fields of a pattern, by division and remainder
FieldOf(Bits, Offset, Width) == (Bits \div (2 ^ Offset)) % (2 ^ Width)
SignField(FloatType, Bits) ==
  FieldOf(Bits, FloatType.format.sign_offset, FloatType.format.sign_bits)
ExpField(FloatType, Bits) ==
  FieldOf(Bits, FloatType.format.exp_offset, FloatType.format.exp_bits)
MantField(FloatType, Bits) ==
  FieldOf(Bits, FloatType.format.mant_offset, FloatType.format.mant_bits)
AllOnesExp(FloatType) == 2 ^ FloatType.format.exp_bits - 1
SignBit(FloatType) == 2 ^ FloatType.format.sign_offset
JBitOf(FloatType) == 2 ^ (FloatType.format.mant_bits - 1)

Min(a, b) == IF a <= b THEN a ELSE b

\* the exact value V is (-1)^Negative * Sig * 2^Exp (a zero with that sign
\* when Sig = 0)
IsValue(V, Negative, Sig, Exp) ==
  IF Sig = 0 THEN V = Zero(Negative)
  ELSE /\ V.kind = "finite"
       /\ V.neg = Negative
       /\ LET lo == Min(V.e, Exp)
          IN V.m * 2 ^ (V.e - lo) = Sig * 2 ^ (Exp - lo)

(***************************************************************************)
(* C8  Decode matches the mathematical definition: in an IEEE754-encoded   *)
(* format (implicit or explicit leading bit) a pattern whose exponent      *)
(* field is below all-ones decodes to                                      *)
(*   (-1)^sign * sig * 2^(effexp - bias - sigwidth),                       *)
(* effexp = 1 for exponent field 0, else the exponent field; sig = the     *)
(* mantissa field, plus 2^mant_bits for implicit-bit patterns with a       *)
(* non-zero exponent; sigwidth = mant_bits (implicit) or mant_bits - 1     *)
(* (explicit); a zero carries the sign bit.                                *)
(***************************************************************************)
FormulaSig(FloatType, Bits) ==
  IF FloatType.encoding.has_implicit_bit /\ ExpField(FloatType, Bits) # 0
    THEN MantField(FloatType, Bits) + 2 ^ FloatType.format.mant_bits
    ELSE MantField(FloatType, Bits)

FormulaExp(FloatType, Bits) ==
  LET EffExp == IF ExpField(FloatType, Bits) = 0 THEN 1
                ELSE ExpField(FloatType, Bits)
      SigWidth == IF FloatType.encoding.has_implicit_bit
                    THEN FloatType.format.mant_bits
                    ELSE FloatType.format.mant_bits - 1
  IN EffExp - exponent_bias(FloatType) - SigWidth

C8_DecodeMatchesFormula ==
  ( /\ Decoded
    /\ IsIEEE754(ft) \/ IsX87(ft)
    /\ ExpField(ft, bits) < AllOnesExp(ft) )
  => IsValue(val, SignField(ft, bits) = 1, FormulaSig(ft, bits),
             FormulaExp(ft, bits))

\* an explicit-bit unnormal (exponent field > 1, J clear, fraction set) of
\* negative sign has been decoded to a finite value
C8_Witness ==
  /\ pc = "decoded" /\ IsX87(ft)
  /\ ExpField(ft, bits) > 1 /\ ExpField(ft, bits) < AllOnesExp(ft)
  /\ MantField(ft, bits) # 0 /\ MantField(ft, bits) < JBitOf(ft)
  /\ SignField(ft, bits) = 1
  /\ val.kind = "finite" /\ val.neg

(***************************************************************************)
(* C9  Whole-word special patterns take precedence: with TrapValue NaN     *)
(* and IntegerExtremes infinities in a format of n bits, 2^(n-1) decodes   *)
(* to NaN, 2^(n-1)-1 to +Infinity, 2^(n-1)+1 to -Infinity, and every       *)
(* other pattern to a zero or a finite value.                              *)
(***************************************************************************)
C9_WholeWordSpecials ==
  ( /\ Decoded
    /\ ft.encoding.nan_encoding = "TrapValue"
    /\ ft.encoding.inf_encoding = "IntegerExtremes" )
  => LET n == ft.format.total_bits
     IN IF bits = 2 ^ (n - 1) THEN val = NaN
        ELSE IF bits = 2 ^ (n - 1) - 1 THEN val = Inf(FALSE)
        ELSE IF bits = 2 ^ (n - 1) + 1 THEN val = Inf(TRUE)
        ELSE val.kind \in {"zero", "finite"}

\* the pattern 2^(n-1)+1 of a format that fills its storage type has been
\* decoded to -Infinity
C9_Witness ==
  /\ pc = "decoded"
  /\ ft = RbjFloat(4, 3)
  /\ ft.format.total_bits = StorageBits(ft)
  /\ bits = 2 ^ (ft.format.total_bits - 1) + 1
  /\ val = Inf(TRUE)

(***************************************************************************)
(* C10  Signed zero handling: rounding a zero gives the all-zero pattern,  *)
(* with the sign bit set only if negative_zero = Exists and the zero is    *)
(* negative; in an IEEE754 format the all-zero pattern decodes to +0, the  *)
(* sign-bit-only pattern to -0, and both round back to themselves.         *)
(***************************************************************************)
C10_SignedZero ==
  /\ (Rounded /\ isZero(val))
       => out = IF val.neg /\ ft.encoding.negative_zero = "Exists"
                  THEN SignBit(ft) ELSE 0
  /\ (Decoded /\ IsIEEE754(ft) /\ bits = 0) => val = Zero(FALSE)
  /\ (Decoded /\ IsIEEE754(ft) /\ bits = SignBit(ft)) => val = Zero(TRUE)
  /\ (Decoded /\ Rounded /\ IsIEEE754(ft) /\ bits \in {0, SignBit(ft)})
       => out = bits

\* the sign-bit-only pattern of an IEEE754 format has been decoded to -0
\* and rounded back
C10_Witness ==
  /\ pc = "rounded" /\ input = "bits"
  /\ IsIEEE754(ft) /\ bits = SignBit(ft)
  /\ val = Zero(TRUE) /\ out = SignBit(ft)

(***************************************************************************)
(* C1  Round-trip canonical identity: for every format and every           *)
(* canonical bit pattern b that does not decode to NaN or infinity,        *)
(* mpfrRoundToFormat(decodeToMpfr(b)) = b, for every sign scheme.          *)
(***************************************************************************)
\* A canonical pattern has no padding bit set, is not the negative-zero
\* pattern of a format without negative zero and, with an explicit leading
\* bit, has the leading bit of its magnitude set exactly when the magnitude
\* exponent field is non-zero.
Canonical(FloatType, Bits) ==
  LET Fmt == FloatType.format
      Mag == MagnitudeFields(FloatType, Bits)
  IN /\ Bits = SignField(FloatType, Bits) * 2 ^ Fmt.sign_offset
                + ExpField(FloatType, Bits) * 2 ^ Fmt.exp_offset
                + MantField(FloatType, Bits) * 2 ^ Fmt.mant_offset
     /\ ~ ( /\ FloatType.encoding.negative_zero = "DoesNotExist"
            /\ SignField(FloatType, Bits) = 1
            /\ Mag[1] = 0 /\ Mag[2] = 0 )
     /\ FloatType.encoding.has_implicit_bit
          \/ ((Mag[1] # 0) <=> (Mag[2] >= JBitOf(FloatType)))

C1_RoundTripIdentity ==
  ( /\ Decoded /\ Rounded
    /\ Canonical(ft, bits)
    /\ ~isNan(val) /\ ~isInf(val) )
  => out = bits

(***************************************************************************)
(* C5  NaN closure: for every format with a NaN scheme, the pattern        *)
(* returned by mpfrRoundToFormat for a NaN input is classified as NaN by   *)
(* decodeToMpfr.                                                           *)
(***************************************************************************)
C5_NanClosure ==
  ( /\ pc = "done"
    /\ ft.encoding.nan_encoding # "None"
    /\ isNan(val) )
  => isNan(back)

(***************************************************************************)
(* C6  Infinity round-trip: for every format whose inf_encoding is not     *)
(* None, rounding +Inf (-Inf) and decoding the result gives +Inf (-Inf).   *)
(***************************************************************************)
C6_InfRoundTrip ==
  ( /\ pc = "done"
    /\ ft.encoding.inf_encoding # "None"
    /\ isInf(val) )
  => back = val

(***************************************************************************)
(* C7  Non-canonical equivalence for explicit-leading-bit formats:         *)
(* (a) an unnormal zero {exp # 0, sig = 0} decodes to the zero of the      *)
(*     pattern's sign,                                                     *)
(* (b) a pseudo-denormal {exp = 0, J = 1, frac f} to the value of the      *)
(*     normal {exp = 1, J = 1, frac f},                                    *)
(* (c) an unnormal {exp = 1, J = 0, frac f} to the value of the subnormal  *)
(*     {exp = 0, J = 0, frac f},                                           *)
(* (d) a pseudo-infinity {exp = max, J = 0, frac = 0} to the infinity of   *)
(*     the canonical {exp = max, J = 1, frac = 0} of the same sign,        *)
(* (e) a pseudo-NaN {exp = max, J = 0, frac # 0} to NaN.                   *)
(***************************************************************************)
\* the pattern with the exponent field of Bits replaced by Exp
WithExp(FloatType, Bits, Exp) ==
  Bits - ExpField(FloatType, Bits) * 2 ^ FloatType.format.exp_offset
       + Exp * 2 ^ FloatType.format.exp_offset

ExplicitBitPattern ==
  /\ Decoded
  /\ ~ft.encoding.has_implicit_bit
  /\ ft.encoding.sign_encoding = "SignMagnitude"

C7a_UnnormalZero ==
  ( /\ ExplicitBitPattern
    /\ ExpField(ft, bits) # 0 /\ ExpField(ft, bits) # AllOnesExp(ft)
    /\ MantField(ft, bits) = 0 )
  => val = Zero(SignField(ft, bits) = 1)

C7b_PseudoDenormal ==
  ( /\ ExplicitBitPattern
    /\ ExpField(ft, bits) = 0
    /\ MantField(ft, bits) >= JBitOf(ft) )
  => val = decodeToMpfr(ft, WithExp(ft, bits, 1))

C7c_Unnormal ==
  ( /\ ExplicitBitPattern
    /\ ExpField(ft, bits) = 1
    /\ MantField(ft, bits) < JBitOf(ft) )
  => val = decodeToMpfr(ft, WithExp(ft, bits, 0))

C7d_PseudoInfinity ==
  ( /\ ExplicitBitPattern
    /\ ft.encoding.inf_encoding = "ReservedExponent"
    /\ ExpField(ft, bits) = AllOnesExp(ft)
    /\ MantField(ft, bits) = 0 )
  => /\ isInf(val)
     /\ val = decodeToMpfr(ft, bits + JBitOf(ft) * 2 ^ ft.format.mant_offset)

C7e_PseudoNan ==
  ( /\ ExplicitBitPattern
    /\ ft.encoding.nan_encoding = "ReservedExponent"
    /\ ExpField(ft, bits) = AllOnesExp(ft)
    /\ MantField(ft, bits) # 0 /\ MantField(ft, bits) < JBitOf(ft) )
  => isNan(val)

C7_NonCanonicalEquivalence ==
  /\ C7a_UnnormalZero
  /\ C7b_PseudoDenormal
  /\ C7c_Unnormal
  /\ C7d_PseudoInfinity
  /\ C7e_PseudoNan

(***************************************************************************)
(* C4  Sign symmetry.                                                      *)
(* As claimed: for every sign scheme and every pattern whose decode is     *)
(* finite and non-zero, decoding the pattern with the sign bit flipped     *)
(* gives the negated value.                                                *)
(***************************************************************************)
SignFlipped(FloatType, Bits) == BitXor(Bits, SignBit(FloatType))

C4_SignSymmetryAllSchemes ==
  (Decoded /\ val.kind = "finite")
  => decodeToMpfr(ft, SignFlipped(ft, bits)) = mpfr_neg(val)

(***************************************************************************)
(* C4 (amended)  Sign symmetry holds for the SignMagnitude sign scheme     *)
(* (without IntegerExtremes infinities): if the decode of a pattern is     *)
(* finite and non-zero, the pattern with the sign bit flipped decodes to   *)
(* the negated value.                                                      *)
(***************************************************************************)
C4_SignSymmetrySignMagnitude ==
  ( /\ Decoded /\ val.kind = "finite"
    /\ ft.encoding.sign_encoding = "SignMagnitude"
    /\ ft.encoding.inf_encoding # "IntegerExtremes" )
  => decodeToMpfr(ft, SignFlipped(ft, bits)) = mpfr_neg(val)

\* a pattern with the sign set has been decoded to a negative finite value
\* in a sign-magnitude format with an explicit leading bit
C4_Witness ==
  /\ pc = "decoded"
  /\ ft.encoding.sign_encoding = "SignMagnitude"
  /\ ~ft.encoding.has_implicit_bit
  /\ SignField(ft, bits) = 1
  /\ val.kind = "finite" /\ val.neg
  /\ decodeToMpfr(ft, SignFlipped(ft, bits)).kind = "finite"

(***************************************************************************)
(* Exact comparison of values of one format: every finite value of the     *)
(* model is an integer multiple of 2^GridExp                               *)
(***************************************************************************)
GridExp(FloatType) == ValueExpLo(FloatType)

\* the value as a signed integer multiple of 2^GridExp (zero for a zero)
OnGrid(FloatType, V) ==
  IF V.kind = "finite"
    THEN (IF V.neg THEN -1 ELSE 1) * V.m * 2 ^ (V.e - GridExp(FloatType))
    ELSE 0

Abs(x) == IF x < 0 THEN 0 - x ELSE x

Distance(FloatType, V, W) == Abs(OnGrid(FloatType, V) - OnGrid(FloatType, W))

\* twice the overflow threshold (largest finite magnitude plus half an ulp)
\* as a multiple of 2^GridExp
TwiceOverflowThreshold(FloatType) ==
  LET RMB == RoundingMantBits(FloatType)
      Emax == MaxBiasedExp(FloatType) - exponent_bias(FloatType)
  IN (2 ^ (RMB + 2) - 1) * 2 ^ (Emax - RMB - GridExp(FloatType))

BelowOverflow(FloatType, V) ==
  2 * Abs(OnGrid(FloatType, V)) < TwiceOverflowThreshold(FloatType)

(***************************************************************************)
(* C2  Correct rounding: in an IEEE754-encoded format, for every finite    *)
(* non-zero exact value v of magnitude below the overflow threshold, the   *)
(* decode of mpfrRoundToFormat(v) is a zero or finite value of v's sign    *)
(* and no finite value of the format is strictly closer to v.              *)
(***************************************************************************)
C2_CorrectRounding ==
  ( /\ pc = "done"
    /\ IsIEEE754(ft)
    /\ val.kind = "finite"
    /\ BelowOverflow(ft, val) )
  => /\ back.kind \in {"zero", "finite"}
     /\ back.neg = val.neg
     /\ \A p \in Patterns(ft) :
          LET w == decodeToMpfr(ft, p)
          IN w.kind \in {"zero", "finite"}
               => Distance(ft, w, val) >= Distance(ft, back, val)

\* an exact value that is not representable has been rounded to a
\* non-zero value of the format
C2_Witness ==
  /\ pc = "done" /\ input = "value"
  /\ IsIEEE754(ft)
  /\ val.kind = "finite" /\ BelowOverflow(ft, val)
  /\ back.kind = "finite" /\ back # val

(***************************************************************************)
(* C3  Ties-to-even: when the exact value lies exactly halfway between two *)
(* adjacent representable magnitudes of the format (normal regime,         *)
(* subnormal regime, subnormal/normal boundary), mpfrRoundToFormat returns *)
(* the neighbour whose stored mantissa field has low bit 0.                *)
(***************************************************************************)
\* exponent of the spacing of representable magnitudes around V
UlpExp(FloatType, V) ==
  LET IeeeExp == V.e + BitLength(V.m) - 1
  IN IF IeeeExp >= EminIeee(FloatType)
       THEN IeeeExp - RoundingMantBits(FloatType)
       ELSE EminIeee(FloatType) - RoundingMantBits(FloatType)

\* largest finite magnitude as a multiple of 2^GridExp
MaxFiniteOnGrid(FloatType) ==
  LET RMB == RoundingMantBits(FloatType)
      Emax == MaxBiasedExp(FloatType) - exponent_bias(FloatType)
  IN (2 ^ (RMB + 1) - 1) * 2 ^ (Emax - RMB - GridExp(FloatType))

\* the two neighbours (V.m - 1)/2 and (V.m + 1)/2 spacings, on the grid
LowerNeighbour(FloatType, V) ==
  ((V.m - 1) \div 2) * 2 ^ (UlpExp(FloatType, V) - GridExp(FloatType))
UpperNeighbour(FloatType, V) ==
  ((V.m + 1) \div 2) * 2 ^ (UlpExp(FloatType, V) - GridExp(FloatType))

\* V (m odd) is an odd multiple of half the spacing, and the magnitude
\* above it is still finite in the format
IsTie(FloatType, V) ==
  /\ V.kind = "finite"
  /\ V.e = UlpExp(FloatType, V) - 1
  /\ UpperNeighbour(FloatType, V) <= MaxFiniteOnGrid(FloatType)

\* the magnitude written into the exponent and mantissa fields of a
\* result pattern, on the grid
StoredMagnitude(FloatType, Bits) ==
  FormulaSig(FloatType, Bits)
    * 2 ^ (FormulaExp(FloatType, Bits) - GridExp(FloatType))

C3_TieNormalReached ==
  /\ pc = "done" /\ IsTie(ft, val)
  /\ val.e + BitLength(val.m) - 1 > EminIeee(ft)
  /\ Abs(OnGrid(ft, back)) = LowerNeighbour(ft, val)

C3_TieSubnormalReached ==
  /\ pc = "done" /\ IsTie(ft, val)
  /\ val.e + BitLength(val.m) - 1 < EminIeee(ft) - 1
  /\ ExpField(ft, out) = 0
  /\ Abs(OnGrid(ft, back)) = UpperNeighbour(ft, val)

(***************************************************************************)
(* Exact arithmetic on MpfrFloat values (mpfr_add, mpfr_sub, mpfr_mul,     *)
(* mpfr_fma and the comparison predicates, MPFR_RNDN). Sums and products   *)
(* of the values of the model's formats fit the working precision, so the  *)
(* results are exact.                                                      *)
(***************************************************************************)
\* a freshly constructed MpfrFloat: mpfr_init2 leaves the value NaN
MpfrFloat == NaN

\* the finite value V as a signed integer multiple of 2^Lo
Aligned(V, Lo) == (IF V.neg THEN -1 ELSE 1) * V.m * 2 ^ (V.e - Lo)

\* the signed integer Z times 2^Exponent; an exact zero is +0 (MPFR_RNDN)
SignedValue(Z, Exponent) ==
  IF Z = 0 THEN Zero(FALSE)
  ELSE IF Z < 0 THEN mpfr_neg(mpfr_set_z_2exp(0 - Z, Exponent))
  ELSE mpfr_set_z_2exp(Z, Exponent)

mpfr_add(A, B) ==
  IF isNan(A) \/ isNan(B) THEN NaN
  ELSE IF isInf(A) THEN (IF isInf(B) /\ A.neg # B.neg THEN NaN ELSE A)
  ELSE IF isInf(B) THEN B
  ELSE IF isZero(A) /\ isZero(B) THEN Zero(A.neg /\ B.neg)
  ELSE IF isZero(A) THEN B
  ELSE IF isZero(B) THEN A
  ELSE LET Lo == IF A.e <= B.e THEN A.e ELSE B.e
       IN SignedValue(Aligned(A, Lo) + Aligned(B, Lo), Lo)

mpfr_sub(A, B) == mpfr_add(A, mpfr_neg(B))

mpfr_mul(A, B) ==
  IF isNan(A) \/ isNan(B) THEN NaN
  ELSE IF (isInf(A) /\ isZero(B)) \/ (isZero(A) /\ isInf(B)) THEN NaN
  ELSE IF isInf(A) \/ isInf(B) THEN Inf(A.neg # B.neg)
  ELSE IF isZero(A) \/ isZero(B) THEN Zero(A.neg # B.neg)
  ELSE [kind |-> "finite", neg |-> (A.neg # B.neg), m |-> A.m * B.m,
        e |-> A.e + B.e]

\* A * B + C with a single rounding: the product is exact
mpfr_fma(A, B, C) == mpfr_add(mpfr_mul(A, B), C)

mpfr_abs(A) == IF isNan(A) THEN A ELSE [A EXCEPT !.neg = FALSE]

\* position of a non-NaN value among -Inf < negative < zero < positive < +Inf
ValueClass(V) ==
  IF isInf(V) THEN (IF V.neg THEN -2 ELSE 2)
  ELSE IF isZero(V) THEN 0
  ELSE IF V.neg THEN -1 ELSE 1

mpfr_less_p(A, B) ==
  /\ ~isNan(A) /\ ~isNan(B)
  /\ IF ValueClass(A) # ValueClass(B) THEN ValueClass(A) < ValueClass(B)
     ELSE /\ A.kind = "finite"
          /\ LET Lo == IF A.e <= B.e THEN A.e ELSE B.e
             IN Aligned(A, Lo) < Aligned(B, Lo)

mpfr_equal_p(A, B) ==
  /\ ~isNan(A) /\ ~isNan(B)
  /\ ~mpfr_less_p(A, B) /\ ~mpfr_less_p(B, A)

mpfr_lessequal_p(A, B) == mpfr_less_p(A, B) \/ mpfr_equal_p(A, B)

(***************************************************************************)
(* ops.hpp: the operations and the output of an implementation             *)
(***************************************************************************)
Op ==
  {"Add", "Sub", "Mul", "Div", "Rem", "Eq", "Lt", "Le", "Sqrt", "Neg",
   "Abs", "MulAdd"}

TestOutput(Bits, Flags) == [Bits |-> Bits, Flags |-> Flags]

\* Quotient, remainder and square root are not among the calls of the
\* model: their exact results are not dyadic.
ExactBinary == {"Add", "Sub", "Mul"}

(***************************************************************************)
(* oracle::mpfrExactOp and the oracle callable of test_mpfr_exact.cpp      *)
(***************************************************************************)
oracle_mpfrExactOp(Operation, A, B) ==
  CASE Operation = "Add" -> mpfr_add(A, B)
    [] Operation = "Sub" -> mpfr_sub(A, B)
    [] Operation = "Mul" -> mpfr_mul(A, B)

\* (variant: the first decoded operand is passed twice to the operation)
makeOracleOp_sameOperand(FloatType, Operation, A, B) ==
  LET Ma == decodeToMpfr(FloatType, A)
      Exact == oracle_mpfrExactOp(Operation, Ma, Ma)
  IN TestOutput(mpfrRoundToFormat(FloatType, Exact), 0)

\* makeOracleOp<FloatType>(Operation)(A, B)
makeOracleOp(FloatType, Operation, A, B) ==
  LET Ma == decodeToMpfr(FloatType, A)
      Mb == decodeToMpfr(FloatType, B)
      Exact == oracle_mpfrExactOp(Operation, Ma, Mb)
  IN TestOutput(mpfrRoundToFormat(FloatType, Exact), 0)

(***************************************************************************)
(* impl_mpfr.hpp: the codec copy of the MPFR adapter. Its decode differs   *)
(* from the oracle's in the field tests of an explicit leading bit.        *)
(***************************************************************************)
testing_IsReservedInf(FloatType, MagExp, MagMant) ==
  LET Fmt == FloatType.format
      ExpMax == 2 ^ Fmt.exp_bits - 1
  IN IF FloatType.encoding.has_implicit_bit
       THEN MagExp = ExpMax /\ MagMant = 0
       ELSE LET JBit == 2 ^ (Fmt.mant_bits - 1)
                FracMask == JBit - 1
            IN MagExp = ExpMax /\ BitAnd(MagMant, FracMask) = 0

testing_IsReservedNan(FloatType, MagExp, MagMant) ==
  MagExp = 2 ^ FloatType.format.exp_bits - 1 /\ MagMant # 0

testing_decodeToMpfr(FloatType, RawBits) ==
  LET Fmt == FloatType.format
      Enc == FloatType.encoding
      TotalBits == Fmt.total_bits
      Bits == IF TotalBits < StorageBits(FloatType)
                THEN BitAnd(RawBits, WordMask(FloatType)) ELSE RawBits
      TrapValue == 2 ^ (TotalBits - 1)
      PosInf == 2 ^ (TotalBits - 1) - 1
      NegInf == NegInfPattern(FloatType)
      RawSign == extractField(Bits, Fmt.sign_offset, Fmt.sign_bits)
      RawExp == extractField(Bits, Fmt.exp_offset, Fmt.exp_bits)
      RawMant == extractField(Bits, Fmt.mant_offset, Fmt.mant_bits)
      IsNegative == RawSign # 0
      Mag == MagnitudeFields(FloatType, Bits)
      MagExp == Mag[1]
      MagMant == Mag[2]
  IN IF Enc.nan_encoding = "TrapValue" /\ Bits = TrapValue THEN NaN
     ELSE IF Enc.inf_encoding = "IntegerExtremes" /\ Bits = PosInf
       THEN Inf(FALSE)
     ELSE IF Enc.inf_encoding = "IntegerExtremes" /\ Bits = NegInf
       THEN Inf(TRUE)
     ELSE IF /\ Enc.nan_encoding = "NegativeZeroBitPattern"
             /\ RawSign # 0 /\ RawExp = 0 /\ RawMant = 0
       THEN NaN
     ELSE IF /\ Enc.inf_encoding = "ReservedExponent"
             /\ testing_IsReservedInf(FloatType, MagExp, MagMant)
       THEN Inf(IsNegative)
     ELSE IF /\ Enc.nan_encoding = "ReservedExponent"
             /\ testing_IsReservedNan(FloatType, MagExp, MagMant)
       THEN NaN
     ELSE IF MagExp = 0 /\ MagMant = 0
       THEN IF Enc.negative_zero = "Exists" THEN Zero(IsNegative)
                                            ELSE Zero(FALSE)
     ELSE DecodeFinite(FloatType, IsNegative, MagExp, MagMant)

\* the adapter's mpfrRoundToFormat is the oracle's, statement for statement
testing_mpfrRoundToFormat(FloatType, Val) == mpfrRoundToFormat(FloatType, Val)

\* an operation outside the switch leaves the fresh Result untouched
testing_mpfrExactOp(Operation, A, B) ==
  CASE Operation = "Add" -> mpfr_add(A, B)
    [] Operation = "Sub" -> mpfr_sub(A, B)
    [] Operation = "Mul" -> mpfr_mul(A, B)
    [] Operation \notin {"Add", "Sub", "Mul", "Div", "Rem"} -> MpfrFloat

mpfrExactUnaryOp(Operation, A) ==
  CASE Operation = "Neg" -> mpfr_neg(A)
    [] Operation = "Abs" -> mpfr_abs(A)
    [] Operation \notin {"Sqrt", "Neg", "Abs"} -> MpfrFloat

mpfrExactTernaryOp(Operation, A, B, C) ==
  IF Operation = "MulAdd" THEN mpfr_fma(A, B, C) ELSE MpfrFloat

(***************************************************************************)
(* The adapters: dispatch, dispatchUnary, dispatchTernary                  *)
(***************************************************************************)
Bool01(b) == IF b THEN 1 ELSE 0

\* BitsType(A ^ SignBit) and BitsType(A & ~SignBit)
FlipSign(FloatType, A) == BitXor(A, 2 ^ FloatType.format.sign_offset)
ClearSign(FloatType, A) ==
  A - BitAnd(A, 2 ^ FloatType.format.sign_offset)

MpfrAdapter_dispatch(FloatType, O, A, B) ==
  LET Ma == testing_decodeToMpfr(FloatType, A)
      Mb == testing_decodeToMpfr(FloatType, B)
  IN CASE O = "Eq" -> TestOutput(Bool01(mpfr_equal_p(Ma, Mb)), 0)
       [] O = "Lt" -> TestOutput(Bool01(mpfr_less_p(Ma, Mb)), 0)
       [] O = "Le" -> TestOutput(Bool01(mpfr_lessequal_p(Ma, Mb)), 0)
       [] OTHER ->
            TestOutput(testing_mpfrRoundToFormat(FloatType,
                         testing_mpfrExactOp(O, Ma, Mb)), 0)

MpfrAdapter_dispatchUnary(FloatType, O, A) ==
  CASE O = "Neg" -> TestOutput(FlipSign(FloatType, A), 0)
    [] O = "Abs" -> TestOutput(ClearSign(FloatType, A), 0)
    [] OTHER ->
         TestOutput(testing_mpfrRoundToFormat(FloatType,
                      mpfrExactUnaryOp(O, testing_decodeToMpfr(FloatType, A))),
                    0)

MpfrAdapter_dispatchTernary(FloatType, O, A, B, C) ==
  LET Ma == testing_decodeToMpfr(FloatType, A)
      Mb == testing_decodeToMpfr(FloatType, B)
      Mc == testing_decodeToMpfr(FloatType, C)
  IN TestOutput(testing_mpfrRoundToFormat(FloatType,
                  mpfrExactTernaryOp(O, Ma, Mb, Mc)), 0)

\* The operations each entry point of NativeAdapter and SoftFloatAdapter
\* has a case for; every other operation takes "default: return {0, 0}".
BinaryOps == {"Add", "Sub", "Mul", "Div", "Rem", "Eq", "Lt", "Le"}
ComparisonOps == {"Eq", "Lt", "Le"}
UnaryOps == {"Sqrt", "Neg", "Abs"}
TernaryOps == {"MulAdd"}

\* The outputs a call of NativeAdapter can return. The result of a
\* hardware operation is whatever the FPU delivers: any pattern of the
\* format (0 or 1 for a comparison).
NativeAdapter_outputs(FloatType, Entry, O) ==
  LET Supported == CASE Entry = "dispatch" -> BinaryOps
                     [] Entry = "dispatchUnary" -> UnaryOps
                     [] Entry = "dispatchTernary" -> TernaryOps
  IN IF O \notin Supported THEN {TestOutput(0, 0)}
     ELSE IF O \in ComparisonOps THEN {TestOutput(b, 0) : b \in {0, 1}}
     ELSE {TestOutput(r, 0) : r \in 0 .. WordMask(FloatType)}

\* The outputs a call of SoftFloatAdapter can return: the library's result
\* for an operation with a case, with Neg and Abs done on the sign bit.
SoftFloatAdapter_outputs(FloatType, Entry, O, A) ==
  LET Supported == CASE Entry = "dispatch" -> BinaryOps
                     [] Entry = "dispatchUnary" -> UnaryOps
                     [] Entry = "dispatchTernary" -> TernaryOps
  IN IF O \notin Supported THEN {TestOutput(0, 0)}
     ELSE IF O \in ComparisonOps THEN {TestOutput(b, 0) : b \in {0, 1}}
     ELSE IF O = "Neg" THEN {TestOutput(FlipSign(FloatType, A), 0)}
     ELSE IF O = "Abs" THEN {TestOutput(ClearSign(FloatType, A), 0)}
     ELSE {TestOutput(r, 0) : r \in 0 .. WordMask(FloatType)}

(***************************************************************************)
(* Calls of the implementations: the oracle callable on binary16, and the  *)
(* three adapters at a small IEEE 754 format and at fp8_e4m3fnuz (for the  *)
(* native and SoftFloat adapters the small format stands for the formats   *)
(* they are specialised for).                                              *)
(***************************************************************************)
float16 == Float(IEEE_Layout(5, 10), IEEE754)

\* binary16 operands: both signs, subnormal and normal exponent fields
\* around 1.0, fractions with the top and the bottom bit
OperandExpFields == {0, 1, 14, 15, 16}
OperandFractions == {0, 1, 512, 1023}
OracleOperands ==
  { s * 2 ^ 15 + x * 2 ^ 10 + f :
      s \in {0, 1}, x \in OperandExpFields, f \in OperandFractions }

\* operands of the adapter calls: zeros, smallest subnormal, 1.0 and its
\* successor, largest finite, the all-ones exponent with and without
\* fraction, of both signs
AdapterOperands(FloatType) ==
  LET M == FloatType.format.mant_bits
      Bias == exponent_bias(FloatType)
      ExpMax == 2 ^ FloatType.format.exp_bits - 1
      Pos == {0, 1, Bias * 2 ^ M, Bias * 2 ^ M + 1, ExpMax * 2 ^ M - 1,
              ExpMax * 2 ^ M, ExpMax * 2 ^ M + 2 ^ (M - 1)}
  IN Pos \cup {p + 2 ^ FloatType.format.sign_offset : p \in Pos}

AdapterTypes == {fp6_e3m2, fp8_e4m3fnuz}

Call(Impl, Entry, O, A, B, C) ==
  [impl |-> Impl, entry |-> Entry, O |-> O, A |-> A, B |-> B, C |-> C]

OracleCalls ==
  { Call("Oracle", "callable", o, a, b, 0) :
      o \in ExactBinary, a \in OracleOperands, b \in OracleOperands }

MpfrCalls(FloatType) ==
  { Call("MpfrAdapter", "dispatch", o, a, b, 0) :
      o \in Op \ {"Div", "Rem"},
      a \in AdapterOperands(FloatType), b \in AdapterOperands(FloatType) }
  \cup
  { Call("MpfrAdapter", "dispatchUnary", o, a, 0, 0) :
      o \in Op \ {"Sqrt"}, a \in AdapterOperands(FloatType) }
  \cup
  { Call("MpfrAdapter", "dispatchTernary", o, a, b, c) :
      o \in Op, a \in AdapterOperands(FloatType),
      b \in {0, exponent_bias(FloatType) * 2 ^ FloatType.format.mant_bits},
      c \in {1, 2 ^ FloatType.format.sign_offset} }

LibraryCalls(Impl, FloatType) ==
  { Call(Impl, "dispatch", o, a, b, 0) :
      o \in Op, a \in {1, 2 ^ FloatType.format.sign_offset}, b \in {0} }
  \cup
  { Call(Impl, "dispatchUnary", o, a, 0, 0) :
      o \in Op, a \in AdapterOperands(FloatType) }
  \cup
  { Call(Impl, "dispatchTernary", o, a, 0, 1) :
      o \in Op, a \in {1, 2 ^ FloatType.format.sign_offset} }

InitCall ==
  /\ pc = "call"
  /\ \/ ft = float16 /\ call \in OracleCalls
     \/ /\ ft \in AdapterTypes
        /\ call \in MpfrCalls(ft) \cup LibraryCalls("NativeAdapter", ft)
                      \cup LibraryCalls("SoftFloatAdapter", ft)
  /\ ret = NotInUse
  /\ CodecIdle /\ HarnessIdle /\ CmpIdle /\ EncIdle /\ OwnIdle

Return(Output) ==
  /\ ret' = Output
  /\ pc' = "returned"
  /\ UNCHANGED <<ft, call, codecVars, harnessVars, cmpVars, encVars, ownVars>>

OracleCall ==
  /\ pc = "call" /\ call.impl = "Oracle"
  /\ Return(makeOracleOp(ft, call.O, call.A, call.B))

MpfrDispatch ==
  /\ pc = "call" /\ call.impl = "MpfrAdapter" /\ call.entry = "dispatch"
  /\ Return(MpfrAdapter_dispatch(ft, call.O, call.A, call.B))

MpfrDispatchUnary ==
  /\ pc = "call" /\ call.impl = "MpfrAdapter"
  /\ call.entry = "dispatchUnary"
  /\ Return(MpfrAdapter_dispatchUnary(ft, call.O, call.A))

MpfrDispatchTernary ==
  /\ pc = "call" /\ call.impl = "MpfrAdapter"
  /\ call.entry = "dispatchTernary"
  /\ Return(MpfrAdapter_dispatchTernary(ft, call.O, call.A, call.B, call.C))

NativeCall ==
  /\ pc = "call" /\ call.impl = "NativeAdapter"
  /\ \E Output \in NativeAdapter_outputs(ft, call.entry, call.O) :
       Return(Output)

SoftFloatCall ==
  /\ pc = "call" /\ call.impl = "SoftFloatAdapter"
  /\ \E Output \in SoftFloatAdapter_outputs(ft, call.entry, call.O, call.A) :
       Return(Output)

NextCall ==
  \/ OracleCall
  \/ MpfrDispatch \/ MpfrDispatchUnary \/ MpfrDispatchTernary
  \/ NativeCall \/ SoftFloatCall

SpecCall == InitCall /\ [][NextCall]_vars

(***************************************************************************)
(* C11  Codec-path addition on binary16: for two finite patterns whose     *)
(* exact sum is representable in binary16, the oracle callable for Add     *)
(* returns the canonical pattern of the sum with status 0; 0x3C00 (1.0)    *)
(* and 0x4000 (2.0) give 0x4200 (3.0).                                     *)
(***************************************************************************)
\* the value of a finite pattern of an IEEE754 format as a signed multiple
\* of the smallest subnormal
PatternOnGrid(FloatType, Bits) ==
  (IF SignField(FloatType, Bits) = 1 THEN -1 ELSE 1)
    * FormulaSig(FloatType, Bits)
    * 2 ^ (FormulaExp(FloatType, Bits) - FormulaExp(FloatType, 0))

\* the magnitude S (in smallest subnormals) is that of a finite value of
\* the format: at most mant_bits + 1 significant bits, not above the
\* largest finite value
RepresentableMagnitude(FloatType, S) ==
  LET M == FloatType.format.mant_bits
      ExpMax == 2 ^ FloatType.format.exp_bits - 1
  IN \/ S < 2 ^ (M + 1)
     \/ /\ S % (2 ^ (BitLength(S) - (M + 1))) = 0
        /\ BitLength(S) - M <= ExpMax - 1

\* the pattern of the magnitude S: exponent field 0 for a subnormal, else
\* the binade of S, and the fraction below the leading bit
MagnitudePattern(FloatType, S) ==
  LET M == FloatType.format.mant_bits
  IN IF S < 2 ^ M THEN S
     ELSE LET k == BitLength(S) - (M + 1)
          IN (k + 1) * 2 ^ M + (S \div (2 ^ k) - 2 ^ M)

\* the canonical pattern of the sum of two finite patterns: a zero sum is
\* -0 only when both operands are -0
SumPattern(FloatType, A, B) ==
  LET S == PatternOnGrid(FloatType, A) + PatternOnGrid(FloatType, B)
      Sign == 2 ^ FloatType.format.sign_offset
  IN IF S = 0 THEN (IF A = Sign /\ B = Sign THEN Sign ELSE 0)
     ELSE IF S < 0 THEN Sign + MagnitudePattern(FloatType, 0 - S)
     ELSE MagnitudePattern(FloatType, S)

FinitePattern(FloatType, Bits) ==
  ExpField(FloatType, Bits) < AllOnesExp(FloatType)

C11_CodecPathAddition ==
  ( /\ pc = "returned" /\ call.impl = "Oracle" /\ call.O = "Add"
    /\ ft = float16
    /\ FinitePattern(ft, call.A) /\ FinitePattern(ft, call.B)
    /\ RepresentableMagnitude(ft,
         Abs(PatternOnGrid(ft, call.A) + PatternOnGrid(ft, call.B))) )
  => /\ ret = TestOutput(SumPattern(ft, call.A, call.B), 0)
     /\ (call.A = 15360 /\ call.B = 16384) => ret.Bits = 16896

\* 0x3C00 + 0x4000 has returned 0x4200
C11_Witness ==
  /\ pc = "returned" /\ call.impl = "Oracle" /\ call.O = "Add"
  /\ ft = float16
  /\ call.A = 15360 /\ call.B = 16384
  /\ ret = TestOutput(16896, 0)

\* a sum that needed cancellation (operands of opposite sign, result in a
\* lower binade) and a sum in the subnormal range are among the calls
C11_CancellationReached ==
  /\ pc = "returned" /\ call.impl = "Oracle" /\ call.O = "Add"
  /\ ft = float16
  /\ call.A = 15360 /\ call.B = 15359 + 2 ^ 15
  /\ ret = TestOutput(SumPattern(ft, call.A, call.B), 0)
  /\ ExpField(ft, ret.Bits) < 15

(***************************************************************************)
(* C16  Unsupported operation sentinel: for each adapter (NativeAdapter,   *)
(* SoftFloatAdapter, MpfrAdapter) and each of dispatch, dispatchUnary and  *)
(* dispatchTernary, a call with an operation that the entry point does not *)
(* implement returns bits 0 and status 0, whatever the operands.           *)
(***************************************************************************)
Implemented(Entry) ==
  CASE Entry = "dispatch" -> BinaryOps
    [] Entry = "dispatchUnary" -> UnaryOps
    [] Entry = "dispatchTernary" -> TernaryOps

UnsupportedCallReturned ==
  /\ pc = "returned"
  /\ call.impl \in {"NativeAdapter", "SoftFloatAdapter", "MpfrAdapter"}
  /\ call.O \notin Implemented(call.entry)

C16_UnsupportedOpSentinel ==
  UnsupportedCallReturned => ret = TestOutput(0, 0)

\* what holds of the code: the native and SoftFloat adapters return the
\* sentinel; the MPFR adapter returns the rounding of a NaN, which is the
\* sentinel only in a format without a reserved-exponent NaN
C16_LibraryAdaptersSentinel ==
  ( /\ UnsupportedCallReturned
    /\ \/ call.impl # "MpfrAdapter"
       \/ ft.encoding.nan_encoding # "ReservedExponent" )
  => ret = TestOutput(0, 0)

C16_MpfrAdapterReturnsNan ==
  ( /\ UnsupportedCallReturned
    /\ call.impl = "MpfrAdapter" )
  => ret = TestOutput(RoundNan(ft), 0)

(***************************************************************************)
(* test_harness.hpp: the comparators                                       *)
(***************************************************************************)
BitExact(A, B) == A.Bits = B.Bits /\ A.Flags = B.Flags

BitExactIgnoreFlags(A, B) == A.Bits = B.Bits

\* NanAwareBitExact<FloatType>::isNan: the exponent field is taken at
\* exp_offset, the mantissa from the low mant_bits bits of the word
NanAwareBitExact_isNan(FloatType, Bits) ==
  LET Fmt == FloatType.format
      Enc == FloatType.encoding
  IN IF Enc.nan_encoding = "ReservedExponent" THEN
       LET ExpMax == 2 ^ Fmt.exp_bits - 1
           Exp == BitAnd(Bits \div (2 ^ Fmt.exp_offset), ExpMax)
           Mant == BitAnd(Bits, 2 ^ Fmt.mant_bits - 1)
       IN Exp = ExpMax /\ Mant # 0
     ELSE IF Enc.nan_encoding = "TrapValue" THEN
       Bits = 2 ^ (Fmt.total_bits - 1)
     ELSE IF Enc.nan_encoding = "NegativeZeroBitPattern" THEN
       Bits = 2 ^ (Fmt.total_bits - 1)
     ELSE FALSE

NanAwareBitExact(FloatType, A, B) ==
  IF /\ NanAwareBitExact_isNan(FloatType, A.Bits)
     /\ NanAwareBitExact_isNan(FloatType, B.Bits)
    THEN TRUE
    ELSE A.Bits = B.Bits

Comparators == {"BitExact", "BitExactIgnoreFlags", "NanAwareBitExact"}

\* Cmp(OA, OB) for the comparator handed to testAgainst
Compare(Cmp, FloatType, A, B) ==
  CASE Cmp = "BitExact" -> BitExact(A, B)
    [] Cmp = "BitExactIgnoreFlags" -> BitExactIgnoreFlags(A, B)
    [] Cmp = "NanAwareBitExact" -> NanAwareBitExact(FloatType, A, B)

(***************************************************************************)
(* test_harness.hpp: interestingValues                                     *)
(***************************************************************************)
\* BitsType arithmetic: subtraction and complement-and-mask in the
\* storage type
SubBits(FloatType, X, Y) ==
  (X - Y + 2 ^ StorageBits(FloatType)) % (2 ^ StorageBits(FloatType))

interestingValues(FloatType) ==
  LET Fmt == FloatType.format
      M == Fmt.mant_bits
      Bias == exponent_bias(FloatType)
      SignBit1 == ShiftLeft(FloatType, 1, Fmt.sign_offset)
      ExpMax == 2 ^ Fmt.exp_bits - 1
      MantMask == 2 ^ M - 1
      AtExp(X) == ShiftLeft(FloatType, X % (2 ^ StorageBits(FloatType)),
                            Fmt.exp_offset)
      Or3(X, Y, Z) == BitOr(BitOr(X, Y), Z)
  IN IF FloatType.encoding.has_implicit_bit THEN
       << 0,
          SignBit1,
          AtExp(ExpMax),
          BitOr(SignBit1, AtExp(ExpMax)),
          BitOr(AtExp(ExpMax), ShiftLeft(FloatType, 1, M - 1)),
          BitOr(AtExp(ExpMax), 1),
          BitOr(AtExp(ExpMax),
                SubBits(FloatType, ShiftLeft(FloatType, 1, M - 1), 1)),
          Or3(SignBit1, AtExp(ExpMax), ShiftLeft(FloatType, 1, M - 1)),
          1,
          BitOr(SignBit1, 1),
          MantMask,
          ShiftLeft(FloatType, 1, M),
          BitOr(AtExp(ExpMax - 1), MantMask),
          Or3(SignBit1, AtExp(ExpMax - 1), MantMask),
          AtExp(Bias),
          BitOr(SignBit1, AtExp(Bias)),
          AtExp(Bias + 1),
          AtExp(Bias - 1),
          (ShiftLeft(FloatType, 1, M) + 1) % (2 ^ StorageBits(FloatType)),
          (AtExp(Bias) + 1) % (2 ^ StorageBits(FloatType)),
          SubBits(FloatType, AtExp(Bias), 1),
          AtExp(Bias - M) >>
     ELSE
       LET JBit == ShiftLeft(FloatType, 1, M - 1)
           MantMaskNoJ == MantMask - BitAnd(MantMask, JBit)
           Quiet == ShiftLeft(FloatType, 1, M - 2)
       IN << 0,
             SignBit1,
             BitOr(AtExp(ExpMax), JBit),
             Or3(SignBit1, AtExp(ExpMax), JBit),
             Or3(AtExp(ExpMax), JBit, Quiet),
             Or3(AtExp(ExpMax), JBit, 1),
             BitOr(AtExp(ExpMax), MantMask),
             BitOr(Or3(SignBit1, AtExp(ExpMax), JBit), Quiet),
             1,
             BitOr(SignBit1, 1),
             MantMaskNoJ,
             BitOr(AtExp(1), JBit),
             BitOr(AtExp(ExpMax - 1), MantMask),
             Or3(SignBit1, AtExp(ExpMax - 1), MantMask),
             BitOr(AtExp(Bias), JBit),
             Or3(SignBit1, AtExp(Bias), JBit),
             BitOr(AtExp(Bias + 1), JBit),
             BitOr(AtExp(Bias - 1), JBit),
             Or3(AtExp(1), JBit, 1),
             Or3(AtExp(Bias), JBit, 1),
             BitOr(AtExp(Bias), SubBits(FloatType, JBit, 1)),
             BitOr(AtExp(Bias - (M - 1)), JBit),
             \* unnormals: non-zero exponent, J = 0
             AtExp(1),
             AtExp(Bias),
             BitOr(SignBit1, AtExp(Bias)),
             BitOr(AtExp(1), MantMaskNoJ),
             BitOr(AtExp(Bias), JBit \div 2),
             BitOr(AtExp(2), MantMaskNoJ),
             BitOr(AtExp(ExpMax - 1), MantMaskNoJ),
             \* pseudo-denormals: exponent 0, J = 1
             JBit,
             BitOr(SignBit1, JBit),
             BitOr(JBit, 1),
             BitOr(JBit, MantMaskNoJ),
             \* pseudo-infinities: exponent max, J = 0, fraction 0
             AtExp(ExpMax),
             BitOr(SignBit1, AtExp(ExpMax)),
             \* pseudo-NaNs: exponent max, J = 0, fraction non-zero
             BitOr(AtExp(ExpMax), Quiet),
             BitOr(AtExp(ExpMax), 1),
             BitOr(AtExp(ExpMax), MantMaskNoJ) >>

(***************************************************************************)
(* The comparators applied to pairs of outputs                             *)
(***************************************************************************)
CompareTypes == {fp6_e3m2, FastFloat(3, 2), fp8_e4m3fnuz}

\* every pattern of the 6-bit formats; for the 8-bit format the NaN
\* pattern, its neighbours and the extremes
CompareBits(FloatType) ==
  IF FloatType.format.total_bits <= 6
    THEN Patterns(FloatType)
    ELSE {0, 1, 2 ^ (FloatType.format.total_bits - 1) - 1,
          2 ^ (FloatType.format.total_bits - 1),
          2 ^ (FloatType.format.total_bits - 1) + 1,
          WordMask(FloatType)}

FlagValues == {0, 1}

InitCompare ==
  /\ ft \in CompareTypes
  /\ pc = "compare"
  /\ \E ABits \in CompareBits(ft), BBits \in CompareBits(ft) :
       \E AFlags \in FlagValues, BFlags \in FlagValues :
         /\ OA = TestOutput(ABits, AFlags)
         /\ OB = TestOutput(BBits, BFlags)
  /\ verdict = NotInUse
  /\ CodecIdle /\ CallIdle /\ HarnessIdle /\ EncIdle /\ OwnIdle

\* Cmp(OA, OB) for each of the three comparators
CompareOutputs ==
  /\ pc = "compare"
  /\ verdict' = [Cmp \in Comparators |-> Compare(Cmp, ft, OA, OB)]
  /\ pc' = "compared"
  /\ UNCHANGED <<ft, OA, OB, codecVars, callVars, harnessVars, encVars,
                 ownVars>>

NextCompare == CompareOutputs

SpecCompare == InitCompare /\ [][NextCompare]_vars

\* C14: NanAwareBitExact is true when both outputs are NaN, whatever the
\* payload, and in every other case it is true exactly when BitExact is
\* true, that is when the bits are equal and the status flags are equal.
C14_NanAwareComparator ==
  pc = "compared" =>
    IF /\ decodeToMpfr(ft, OA.Bits).kind = "nan"
       /\ decodeToMpfr(ft, OB.Bits).kind = "nan"
      THEN verdict["NanAwareBitExact"]
      ELSE verdict["NanAwareBitExact"] = verdict["BitExact"]

\* what the comparator computes: both NaN, or the bits alone equal
C14_NanAwareIgnoresFlags ==
  pc = "compared" =>
    IF /\ decodeToMpfr(ft, OA.Bits).kind = "nan"
       /\ decodeToMpfr(ft, OB.Bits).kind = "nan"
      THEN verdict["NanAwareBitExact"]
      ELSE verdict["NanAwareBitExact"] = verdict["BitExactIgnoreFlags"]

C14_NanPairReached ==
  /\ pc = "compared"
  /\ decodeToMpfr(ft, OA.Bits).kind = "nan"
  /\ decodeToMpfr(ft, OB.Bits).kind = "nan"
  /\ OA.Bits # OB.Bits
  /\ verdict["NanAwareBitExact"]

(***************************************************************************)
(* encoding.hpp: the ValidEncoding concept                                 *)
(***************************************************************************)
\* the members the requires-clause asks for (denormal_mode, which no
\* conjunct reads, is left out of the policy records of this module)
EncodingMembers ==
  {"sign_encoding", "has_implicit_bit", "exponent_bias", "negative_zero",
   "nan_encoding", "inf_encoding"}

ValidEncoding(E) ==
  /\ DOMAIN E = EncodingMembers
  /\ E.sign_encoding \in SignEncoding
  /\ E.has_implicit_bit \in BOOLEAN
  /\ E.exponent_bias \in Int
  /\ E.negative_zero \in NegativeZero
  /\ E.nan_encoding \in NanEncoding
  /\ E.inf_encoding \in InfEncoding
  /\ (E.sign_encoding # "TwosComplement" \/ E.negative_zero = "DoesNotExist")
  /\ (\/ E.sign_encoding # "TwosComplement"
      \/ E.nan_encoding = "TrapValue"
      \/ E.nan_encoding = "None")
  /\ (\/ E.sign_encoding # "TwosComplement"
      \/ E.inf_encoding = "IntegerExtremes"
      \/ E.inf_encoding = "None")
  /\ (E.sign_encoding # "OnesComplement" \/ E.negative_zero = "Exists")
  /\ (\/ E.nan_encoding # "NegativeZeroBitPattern"
      \/ E.negative_zero = "DoesNotExist")
  /\ (\/ E.inf_encoding # "ReservedExponent"
      \/ E.nan_encoding = "ReservedExponent")

\* every combination of the enum values, with an automatic or an explicit
\* bias
EncodingPolicies ==
  [sign_encoding : SignEncoding, has_implicit_bit : BOOLEAN,
   exponent_bias : {AutoBias, 3}, negative_zero : NegativeZero,
   nan_encoding : NanEncoding, inf_encoding : InfEncoding]

\* a policy struct that lacks one of the members
WithoutMember(E, Name) == [F \in DOMAIN E \ {Name} |-> E[F]]

IncompletePolicies == {WithoutMember(IEEE754, Name) : Name \in EncodingMembers}

InitEncoding ==
  /\ ft = NotInUse
  /\ pc = "declared"
  /\ policy \in EncodingPolicies \cup IncompletePolicies
  /\ accepted = NotInUse
  /\ CodecIdle /\ CallIdle /\ HarnessIdle /\ CmpIdle /\ OwnIdle

\* instantiating Float<Format, Encoding, ...> evaluates ValidEncoding
CheckEncoding ==
  /\ pc = "declared"
  /\ accepted' = ValidEncoding(policy)
  /\ pc' = "checked"
  /\ UNCHANGED <<ft, policy, codecVars, callVars, harnessVars, cmpVars,
                 ownVars>>

NextEncoding == CheckEncoding

SpecEncoding == InitEncoding /\ [][NextEncoding]_vars

\* C15: every accepted encoding policy satisfies: TwosComplement implies
\* no negative zero, a NaN scheme in {TrapValue, None} and an Inf scheme in
\* {IntegerExtremes, None}; OnesComplement implies negative zero exists;
\* NegativeZeroBitPattern NaN implies no negative zero; IntegerExtremes Inf
\* implies the TwosComplement sign scheme; ReservedExponent Inf implies
\* ReservedExponent NaN.  A combination violating one of them is rejected.
C15_AcceptedPoliciesConsistent ==
  (pc = "checked" /\ accepted) =>
    /\ policy.sign_encoding = "TwosComplement" =>
         /\ policy.negative_zero = "DoesNotExist"
         /\ policy.nan_encoding \in {"TrapValue", "None"}
         /\ policy.inf_encoding \in {"IntegerExtremes", "None"}
    /\ policy.sign_encoding = "OnesComplement" =>
         policy.negative_zero = "Exists"
    /\ policy.nan_encoding = "NegativeZeroBitPattern" =>
         policy.negative_zero = "DoesNotExist"
    /\ policy.inf_encoding = "IntegerExtremes" =>
         policy.sign_encoding = "TwosComplement"
    /\ policy.inf_encoding = "ReservedExponent" =>
         policy.nan_encoding = "ReservedExponent"

\* the rules the concept does enforce: all of the above except the one
\* tying IntegerExtremes to TwosComplement, in both directions
C15_EnforcedRules ==
  (pc = "checked" /\ DOMAIN policy = EncodingMembers) =>
    (accepted <=>
      /\ policy.sign_encoding = "TwosComplement" =>
           /\ policy.negative_zero = "DoesNotExist"
           /\ policy.nan_encoding \in {"TrapValue", "None"}
           /\ policy.inf_encoding \in {"IntegerExtremes", "None"}
      /\ policy.sign_encoding = "OnesComplement" =>
           policy.negative_zero = "Exists"
      /\ policy.nan_encoding = "NegativeZeroBitPattern" =>
           policy.negative_zero = "DoesNotExist"
      /\ policy.inf_encoding = "ReservedExponent" =>
           policy.nan_encoding = "ReservedExponent")

\* the named encodings of the library are accepted
C15_LibraryEncodingsAccepted ==
  \A E \in {IEEE754, RbjTwosComplement, PDP10, CDC6600, E4M3FNUZ, Relaxed,
            X87Extended} : ValidEncoding(E)

(***************************************************************************)
(* Rounding into a format that has no encoding for the value               *)
(***************************************************************************)
\* the largest exponent field among the non-negative patterns that decode
\* to a finite value
MaxFiniteExpField(FloatType) ==
  LET Fmt == FloatType.format
      Field(P) == BitAnd(P \div (2 ^ Fmt.exp_offset), 2 ^ Fmt.exp_bits - 1)
      Fields == { Field(P) : P \in { Q \in Patterns(FloatType) :
                    /\ Q < 2 ^ Fmt.sign_offset
                    /\ decodeToMpfr(FloatType, Q).kind = "finite" } }
  IN CHOOSE F \in Fields : \A G \in Fields : G <= F

\* the value, rounded to the format's precision with an unbounded
\* exponent, has an exponent above that of the largest finite value
RoundedExponentExceedsMax(FloatType, V) ==
  LET RMB == RoundingMantBits(FloatType)
      Emax == MaxFiniteExpField(FloatType) - exponent_bias(FloatType)
  IN /\ V.kind = "finite"
     /\ 2 * Abs(OnGrid(FloatType, V))
          >= (2 ^ (RMB + 2) - 1) * 2 ^ (Emax - RMB - GridExp(FloatType))

\* C17: for a format whose inf_encoding is None, mpfrRoundToFormat returns
\* the all-zero pattern for +Inf, for -Inf and for every finite value whose
\* rounded biased exponent exceeds the maximum finite exponent; for a
\* format whose nan_encoding is None it returns the all-zero pattern for
\* NaN.  No bit, the sign bit included, is set in these cases.
C17_RepresentationMismatch ==
  pc \in {"rounded", "done"} =>
    /\ ( /\ ft.encoding.inf_encoding = "None"
         /\ (val.kind = "inf" \/ RoundedExponentExceedsMax(ft, val)) )
       => out = 0
    /\ (ft.encoding.nan_encoding = "None" /\ val.kind = "nan") => out = 0

\* a negative finite value beyond the largest finite value has been
\* rounded into a format without an infinity encoding
C17_Witness ==
  /\ pc = "rounded"
  /\ ft.encoding.inf_encoding = "None"
  /\ val.neg /\ RoundedExponentExceedsMax(ft, val)
  /\ out = 0

C17_NegativeInfinityReached ==
  /\ pc = "rounded"
  /\ ft.encoding.inf_encoding = "None"
  /\ val = Inf(TRUE) /\ out = 0

C17_NanReached ==
  /\ pc = "rounded"
  /\ ft.encoding.nan_encoding = "None"
  /\ val = NaN /\ out = 0

\* a value just below the threshold is rounded to the largest finite value
C17_LargestFiniteReached ==
  /\ pc = "done"
  /\ ft.encoding.inf_encoding = "None"
  /\ val.kind = "finite" /\ ~RoundedExponentExceedsMax(ft, val)
  /\ back.kind = "finite" /\ back # val
  /\ 2 * Abs(OnGrid(ft, back)) + 1 >=
       (2 ^ (RoundingMantBits(ft) + 2) - 2)
         * 2 ^ (MaxFiniteExpField(ft) - exponent_bias(ft)
                  - RoundingMantBits(ft) - GridExp(ft))

(***************************************************************************)
(* Calls of interestingValues, and the decode of the entries               *)
(***************************************************************************)
InterestingTypes == {fp6_e3m2, fp8_e4m3, float16, extFloat7}

MaxCalls == 2

InitInteresting ==
  /\ ft \in InterestingTypes
  /\ pc = "call"
  /\ call = [fn |-> "interestingValues", index |-> 0]
  /\ ret = <<>>
  /\ CodecIdle /\ HarnessIdle /\ CmpIdle /\ EncIdle /\ OwnIdle

\* constexpr auto Interesting = interestingValues<FloatType>()
Generate ==
  /\ pc \in {"call", "generated"}
  /\ Len(ret) < MaxCalls
  /\ ret' = Append(ret, interestingValues(ft))
  /\ pc' = "generated"
  /\ UNCHANGED <<ft, call, codecVars, harnessVars, cmpVars, encVars, ownVars>>

\* decodeToMpfr<FloatType>(Interesting[Index])
DecodeEntry ==
  /\ pc = "generated"
  /\ \E Index \in 1 .. Len(ret[Len(ret)]) :
       /\ call' = [call EXCEPT !.index = Index]
       /\ bits' = ret[Len(ret)][Index]
       /\ val' = decodeToMpfr(ft, ret[Len(ret)][Index])
  /\ input' = "bits"
  /\ pc' = "decoded"
  /\ UNCHANGED <<ft, ret, out, back, harnessVars, cmpVars, encVars, ownVars>>

NextInteresting == Generate \/ DecodeEntry

SpecInteresting == InitInteresting /\ [][NextInteresting]_vars

\* the values of the categories, for an IEEE-style format
Signed(Negative, V) == IF Negative THEN mpfr_neg(V) ELSE V

MinSubnormal(FloatType) ==
  mpfr_set_z_2exp(1, EminIeee(FloatType) - RoundingMantBits(FloatType))

MaxSubnormal(FloatType) ==
  mpfr_set_z_2exp(2 ^ RoundingMantBits(FloatType) - 1,
                  EminIeee(FloatType) - RoundingMantBits(FloatType))

MinNormal(FloatType) == mpfr_set_z_2exp(1, EminIeee(FloatType))

MaxFinite(FloatType) ==
  mpfr_set_z_2exp(2 ^ (RoundingMantBits(FloatType) + 1) - 1,
                  MaxBiasedExp(FloatType) - exponent_bias(FloatType)
                    - RoundingMantBits(FloatType))

AboveMinNormal(FloatType) ==
  mpfr_set_z_2exp(2 ^ RoundingMantBits(FloatType) + 1,
                  EminIeee(FloatType) - RoundingMantBits(FloatType))

AboveOne(FloatType) ==
  mpfr_set_z_2exp(2 ^ RoundingMantBits(FloatType) + 1,
                  0 - RoundingMantBits(FloatType))

BelowOne(FloatType) ==
  mpfr_set_z_2exp(2 ^ (RoundingMantBits(FloatType) + 1) - 1,
                  0 - RoundingMantBits(FloatType) - 1)

MachineEpsilon(FloatType) ==
  mpfr_set_z_2exp(1, 0 - RoundingMantBits(FloatType))

\* the categories other than the negative maximum subnormal and the
\* neighbour below 1.0
CoveredValues(FloatType) ==
  {Zero(FALSE), Zero(TRUE), Inf(FALSE), Inf(TRUE), NaN,
   MinSubnormal(FloatType), mpfr_neg(MinSubnormal(FloatType)),
   MaxSubnormal(FloatType), MinNormal(FloatType),
   MaxFinite(FloatType), mpfr_neg(MaxFinite(FloatType)),
   mpfr_set_z_2exp(1, 0), mpfr_neg(mpfr_set_z_2exp(1, 0)),
   mpfr_set_z_2exp(1, 1), mpfr_set_z_2exp(1, -1),
   AboveOne(FloatType), AboveMinNormal(FloatType),
   MachineEpsilon(FloatType)}

RequiredValues(FloatType) ==
  CoveredValues(FloatType)
    \cup {mpfr_neg(MaxSubnormal(FloatType)), BelowOne(FloatType)}

DecodedEntries(FloatType, Entries) ==
  { decodeToMpfr(FloatType, Entries[Index]) : Index \in 1 .. Len(Entries) }

\* the quiet bit: the most significant bit of the fraction
HasQuietNan(FloatType, Entries) ==
  \E Index \in 1 .. Len(Entries) :
    /\ decodeToMpfr(FloatType, Entries[Index]).kind = "nan"
    /\ FieldOf(Entries[Index],
               FloatType.format.mant_offset
                 + RoundingMantBits(FloatType) - 1, 1) = 1

C20_CoveredCategories ==
  pc \in {"generated", "decoded"} =>
    /\ \A K \in 1 .. Len(ret) :
         /\ CoveredValues(ft) \subseteq DecodedEntries(ft, ret[K])
         /\ ft.encoding.has_implicit_bit
              => BelowOne(ft) \in DecodedEntries(ft, ret[K])
         /\ HasQuietNan(ft, ret[K])
    /\ \A J \in 1 .. Len(ret), K \in 1 .. Len(ret) : ret[J] = ret[K]

C20_NegativeMaxSubnormalAbsent ==
  pc \in {"generated", "decoded"} =>
    \A K \in 1 .. Len(ret) :
      mpfr_neg(MaxSubnormal(ft)) \notin DecodedEntries(ft, ret[K])

C20_ExplicitBelowOneAbsent ==
  (pc \in {"generated", "decoded"} /\ ~ft.encoding.has_implicit_bit) =>
    \A K \in 1 .. Len(ret) : BelowOne(ft) \notin DecodedEntries(ft, ret[K])

C20_SecondCallReached ==
  /\ pc = "decoded" /\ Len(ret) = MaxCalls
  /\ ~ft.encoding.has_implicit_bit
  /\ val = MaxFinite(ft)

(***************************************************************************)
(* test_harness.hpp: RandomPairs                                           *)
(***************************************************************************)
\* width of one generator word (64 in the source), scaled like the formats
ChunkBits == 6

\* std::mt19937_64: a deterministic generator; the state after seeding and
\* each word drawn are functions of the seed alone.  A full-period
\* congruential generator on ChunkBits-bit words stands for it.
mt19937_64(Seed) == Seed % (2 ^ ChunkBits)
NextWord(RngState) == (RngState * 5 + 3) % (2 ^ ChunkBits)

RECURSIVE GenChunks(_, _, _, _)
GenChunks(FloatType, RngState, I, Val) ==
  IF I >= (FloatType.format.total_bits + ChunkBits - 1) \div ChunkBits
    THEN [Val |-> Val, Rng |-> RngState]
    ELSE GenChunks(FloatType, NextWord(RngState), I + 1,
                   BitOr(Val, ShiftLeft(FloatType,
                                        NextWord(RngState)
                                          % (2 ^ StorageBits(FloatType)),
                                        I * ChunkBits)))

\* the lambda Gen: the value drawn and the generator state left behind
Gen(FloatType, RngState) ==
  LET Drawn == GenChunks(FloatType, RngState, 0, 0)
  IN IF FloatType.format.total_bits < StorageBits(FloatType)
       THEN [Drawn EXCEPT !.Val = BitAnd(Drawn.Val, WordMask(FloatType))]
       ELSE Drawn

\* the order in which the two arguments of Callback(Gen(), Gen()) are
\* evaluated is left to the compiler
ArgumentOrders == {"LeftToRight", "RightToLeft"}

\* Callback(Gen(), Gen()): the two operands and the generator state
RandomPair(FloatType, RngState, Order) ==
  LET First == Gen(FloatType, RngState)
      Second == Gen(FloatType, First.Rng)
  IN IF Order = "LeftToRight"
       THEN [A |-> First.Val, B |-> Second.Val, Rng |-> Second.Rng]
       ELSE [A |-> Second.Val, B |-> First.Val, Rng |-> Second.Rng]

(***************************************************************************)
(* Two invocations of one RandomPairs object                               *)
(***************************************************************************)
RandomTypes == {fp6_e3m2, extFloat7, fp8_e4m3}
MaxSeed == 3
MaxRandom == 3
Invocations == 2

InitRandom ==
  /\ ft \in RandomTypes
  /\ pc = "constructed"
  /\ \E Seed \in 0 .. MaxSeed, Count \in 0 .. MaxRandom :
       iter = [Seed |-> Seed, Count |-> Count, I |-> 0, Rng |-> 0,
               Order |-> "LeftToRight"]
  /\ log = <<>>
  /\ counts = NotInUse /\ Failures = <<>> /\ NumReported = 0 /\ err = <<>>
  /\ printed = <<>>
  /\ CodecIdle /\ CallIdle /\ CmpIdle /\ EncIdle /\ OwnIdle

\* RandomPairs::operator() is entered: std::mt19937_64 Rng(Seed)
InvokeRandom ==
  /\ pc = "constructed"
  /\ Len(log) < Invocations
  /\ \E Order \in ArgumentOrders :
       iter' = [iter EXCEPT !.I = 0, !.Rng = mt19937_64(iter.Seed),
                            !.Order = Order]
  /\ log' = Append(log, <<>>)
  /\ pc' = "running"
  /\ UNCHANGED <<ft, counts, Failures, NumReported, printed, err>>
  /\ UNCHANGED <<codecVars, callVars, cmpVars, encVars, ownVars>>

\* one iteration of the loop: Callback(Gen(), Gen())
RandomCallback ==
  /\ pc = "running"
  /\ iter.I < iter.Count
  /\ LET Pair == RandomPair(ft, iter.Rng, iter.Order)
     IN /\ iter' = [iter EXCEPT !.I = iter.I + 1, !.Rng = Pair.Rng]
        /\ log' = [log EXCEPT ![Len(log)] =
                     Append(log[Len(log)], <<Pair.A, Pair.B>>)]
  /\ UNCHANGED <<ft, pc, counts, Failures, NumReported, printed, err>>
  /\ UNCHANGED <<codecVars, callVars, cmpVars, encVars, ownVars>>

\* the loop ends and operator() returns
ReturnRandom ==
  /\ pc = "running"
  /\ iter.I >= iter.Count
  /\ pc' = "constructed"
  /\ UNCHANGED <<ft, harnessVars, codecVars, callVars, cmpVars, encVars,
                 ownVars>>

NextRandom == InvokeRandom \/ RandomCallback \/ ReturnRandom

SpecRandom == InitRandom /\ [][NextRandom]_vars

BothReturned == pc = "constructed" /\ Len(log) = Invocations

\* C19: two invocations of RandomPairs with the same Seed and Count deliver
\* the identical sequence of (a, b) pairs to the callback, the same value
\* in the same operand position at every index, and every delivered value
\* is less than 2^TotalBits, also when TotalBits exceeds the generator word.
C19_RandomReproducible ==
  /\ BothReturned => log[1] = log[2]
  /\ \A K \in 1 .. Len(log) : \A N \in 1 .. Len(log[K]) :
       /\ log[K][N][1] < 2 ^ ft.format.total_bits
       /\ log[K][N][2] < 2 ^ ft.format.total_bits

\* every delivered value is in range and each invocation delivers Count
\* pairs
C19_ValuesInRange ==
  /\ BothReturned => \A K \in 1 .. Invocations : Len(log[K]) = iter.Count
  /\ \A K \in 1 .. Len(log) : \A N \in 1 .. Len(log[K]) :
       /\ log[K][N][1] \in Patterns(ft)
       /\ log[K][N][2] \in Patterns(ft)

\* the two invocations deliver the same two values at every index, in the
\* same or in exchanged operand positions
C19_SameValuesUpToOrder ==
  BothReturned =>
    \A N \in 1 .. iter.Count :
      \/ log[1][N] = log[2][N]
      \/ log[1][N] = <<log[2][N][2], log[2][N][1]>>

C19_WideFormatReached ==
  /\ BothReturned /\ iter.Count = MaxRandom
  /\ ft.format.total_bits > ChunkBits
  /\ \E N \in 1 .. Len(log[2]) : log[2][N][1] >= 2 ^ ChunkBits

(***************************************************************************)
(* test_harness.hpp: testAgainst over combined(TargetedPairs, RandomPairs)  *)
(***************************************************************************)
MaxReportedFailures == 10

HexDigits ==
  <<"0", "1", "2", "3", "4", "5", "6", "7", "8", "9", "A", "B", "C", "D",
    "E", "F">>

\* printHex: Width characters, most significant nibble first
printHex(Val, Width) ==
  [K \in 1 .. Width |->
     HexDigits[BitAnd(Val \div (16 ^ (Width - K)), 15) + 1]]

Failure(InputA, InputB, OutputA, OutputB) ==
  [InputA |-> InputA, InputB |-> InputB, OutputA |-> OutputA,
   OutputB |-> OutputB]

TestResult == [Total |-> 0, Passed |-> 0, Failed |-> 0]

\* the two implementations handed to testAgainst
Impl(Adapter, O) == [Adapter |-> Adapter, O |-> O]

ApplyImpl(Callable, FloatType, ABits, BBits) ==
  IF Callable.Adapter = "Oracle"
    THEN makeOracleOp(FloatType, Callable.O, ABits, BBits)
    ELSE MpfrAdapter_dispatch(FloatType, Callable.O, ABits, BBits)

ImplPairs ==
  { <<Impl("MpfrAdapter", "Add"), Impl("Oracle", "Add")>>,
    <<Impl("MpfrAdapter", "Add"), Impl("MpfrAdapter", "Eq")>>,
    <<Impl("MpfrAdapter", "Mul"), Impl("MpfrAdapter", "Sub")>>,
    <<Impl("MpfrAdapter", "Sub"), Impl("Oracle", "Add")>> }

\* (variant: Total is advanced on the passing branch only)
CountResult_totalOnPass(R, Ok) ==
  [Total |-> IF Ok THEN R.Total + 1 ELSE R.Total,
   Passed |-> IF Ok THEN R.Passed + 1 ELSE R.Passed,
   Failed |-> IF Ok THEN R.Failed ELSE R.Failed + 1]

\* R.Total++ and R.Passed++ or R.Failed++
CountResult(R, Ok) ==
  [Total |-> R.Total + 1,
   Passed |-> IF Ok THEN R.Passed + 1 ELSE R.Passed,
   Failed |-> IF Ok THEN R.Failed ELSE R.Failed + 1]

\* (variant: when the buffer is full the last slot is overwritten)
RecordFailure_overwriteLast(Recorded, Ok, Entry) ==
  IF Ok THEN Recorded
  ELSE IF Len(Recorded) < MaxReportedFailures THEN Append(Recorded, Entry)
  ELSE [Recorded EXCEPT ![MaxReportedFailures] = Entry]

\* if (NumReported < MaxReportedFailures) Failures[NumReported++] = {...};
\* the sequence is the initialised part of the array
RecordFailure(Recorded, Ok, Entry) ==
  IF ~Ok /\ Len(Recorded) < MaxReportedFailures
    THEN Append(Recorded, Entry)
    ELSE Recorded

\* the body of the callback for one pair
Callback(ABits, BBits, Strategy) ==
  /\ OA' = ApplyImpl(call.ImplA, ft, ABits, BBits)
  /\ OB' = ApplyImpl(call.ImplB, ft, ABits, BBits)
  /\ verdict' = Compare(call.Cmp, ft, OA', OB')
  /\ counts' = CountResult(counts, verdict')
  /\ Failures' = RecordFailure(Failures, verdict',
                               Failure(ABits, BBits, OA', OB'))
  /\ NumReported' = Len(Failures')
  /\ log' = Append(log, [Strategy |-> Strategy, InputA |-> ABits,
                         InputB |-> BBits, OutputA |-> OA',
                         OutputB |-> OB', Ok |-> verdict'])
  /\ UNCHANGED <<ft, pc, call, ret, printed, err, codecVars, encVars, ownVars>>

\* (variant: the inner loop starts at the outer index)
TargetedAdvance_fromOuter(Strategy) ==
  IF Strategy.J + 1 < Strategy.Count
    THEN [Strategy EXCEPT !.J = Strategy.J + 1]
    ELSE [Strategy EXCEPT !.I = Strategy.I + 1, !.J = Strategy.I + 1]

\* TargetedPairs: ++J, and ++I with J = 0 at the end of a row
TargetedAdvance(Strategy) ==
  IF Strategy.J + 1 < Strategy.Count
    THEN [Strategy EXCEPT !.J = Strategy.J + 1]
    ELSE [Strategy EXCEPT !.I = Strategy.I + 1, !.J = 0]

HarnessTypes == {fp6_e3m2, fp8_e4m3}
MaxCount == 4
HarnessSeed == 42

\* testAgainst<BitsType>(Name, HexWidth, combined(TargetedPairs{Values,
\* Count}, RandomPairs{Seed, N}), A, B, Cmp) has been entered
InitHarness ==
  /\ ft \in HarnessTypes
  /\ pc = "iterating"
  /\ \E Pair \in ImplPairs, Cmp \in Comparators :
       call = [Name |-> "verifyAgreement",
               HexWidth |-> (ft.format.total_bits + 3) \div 4,
               ImplA |-> Pair[1], ImplB |-> Pair[2], Cmp |-> Cmp]
  /\ ret = NotInUse
  /\ \E Count \in 0 .. MaxCount, N \in 0 .. MaxRandom,
        Order \in ArgumentOrders :
       iter = [Values |-> interestingValues(ft), Count |-> Count,
               I |-> 0, J |-> 0,
               Seed |-> HarnessSeed, N |-> N, K |-> 0,
               Rng |-> mt19937_64(HarnessSeed), Order |-> Order]
  /\ counts = TestResult
  /\ Failures = <<>>
  /\ NumReported = 0
  /\ log = <<>>
  /\ printed = <<>>
  /\ err = <<>>
  /\ CodecIdle /\ CmpIdle /\ EncIdle /\ OwnIdle

\* TargetedPairs::operator(): Callback(Values[I], Values[J])
TargetedCallback ==
  /\ pc = "iterating"
  /\ iter.I < iter.Count
  /\ iter' = TargetedAdvance(iter)
  /\ Callback(iter.Values[iter.I + 1], iter.Values[iter.J + 1],
              "TargetedPairs")

\* RandomPairs::operator(), entered when TargetedPairs has returned:
\* Callback(Gen(), Gen())
RandomPairsCallback ==
  /\ pc = "iterating"
  /\ iter.I >= iter.Count
  /\ iter.K < iter.N
  /\ LET Pair == RandomPair(ft, iter.Rng, iter.Order)
     IN /\ iter' = [iter EXCEPT !.K = iter.K + 1, !.Rng = Pair.Rng]
        /\ Callback(Pair.A, Pair.B, "RandomPairs")

SummaryLine(Name, R) ==
  IF R.Failed > 0
    THEN [Name |-> Name, Passed |-> R.Passed, Total |-> R.Total,
          Failed |-> R.Failed]
    ELSE [Name |-> Name, Passed |-> R.Passed, Total |-> R.Total]

FailLine(Name, F, HexWidth) ==
  [Name |-> Name,
   a |-> printHex(F.InputA, HexWidth), b |-> printHex(F.InputB, HexWidth),
   implA |-> printHex(F.OutputA.Bits, HexWidth),
   implB |-> printHex(F.OutputB.Bits, HexWidth)]

\* the iterator has returned: the summary line, one FAIL line per recorded
\* failure, return R
Report ==
  /\ pc = "iterating"
  /\ iter.I >= iter.Count
  /\ iter.K >= iter.N
  /\ printed' = <<SummaryLine(call.Name, counts)>>
  /\ err' = [K \in 1 .. NumReported |->
               FailLine(call.Name, Failures[K], call.HexWidth)]
  /\ ret' = counts
  /\ pc' = "returned"
  /\ UNCHANGED <<ft, call, iter, counts, Failures, NumReported, log>>
  /\ UNCHANGED <<codecVars, cmpVars, encVars, ownVars>>

NextHarness == TargetedCallback \/ RandomPairsCallback \/ Report

SpecHarness == InitHarness /\ [][NextHarness]_vars

\* the pairs processed so far on which the comparator returned false
Mismatches == { N \in 1 .. Len(log) : ~log[N].Ok }

\* C12: the harness never aborts on a mismatch: both implementations and
\* the comparator are invoked on every pair the iterator yields, and at
\* every step and on return Total = Passed + Failed, Total is the number
\* of pairs processed so far and Failed is the number of those pairs on
\* which the comparator returned false, also beyond 10 mismatches.
C12_CountsConsistent ==
  /\ counts.Total = counts.Passed + counts.Failed
  /\ counts.Total = Len(log)
  /\ counts.Failed = Cardinality(Mismatches)
  /\ \A N \in 1 .. Len(log) :
       /\ log[N].OutputA
            = ApplyImpl(call.ImplA, ft, log[N].InputA, log[N].InputB)
       /\ log[N].OutputB
            = ApplyImpl(call.ImplB, ft, log[N].InputA, log[N].InputB)
       /\ log[N].Ok = Compare(call.Cmp, ft, log[N].OutputA, log[N].OutputB)
  /\ pc = "returned" =>
       /\ ret = counts
       /\ ret.Total = iter.Count * iter.Count + iter.N

\* a run has gone on past more than 10 mismatches, with passes among them
C12_Witness ==
  /\ pc = "returned"
  /\ ret.Failed > MaxReportedFailures
  /\ ret.Passed > 0
  /\ \E N \in Mismatches : N < Len(log) /\ log[N + 1].Ok

\* the value a hexadecimal string stands for
RECURSIVE HexValue(_)
HexValue(Digits) ==
  IF Digits = <<>> THEN 0
  ELSE 16 * HexValue(SubSeq(Digits, 1, Len(Digits) - 1))
         + (CHOOSE D \in 0 .. 15 : HexDigits[D + 1] = Digits[Len(Digits)])

IsMismatch(Entry) == ~Entry.Ok

\* C13: after any sequence of comparisons the number of recorded failures
\* is min(Failed, 10) and never exceeds the 10-slot buffer; the recorded
\* entries are exactly the first min(Failed, 10) mismatching pairs in
\* iteration order, each with the pair's two inputs and the two outputs
\* produced for it; one FAIL line is emitted per recorded entry.
C13_FailureRecording ==
  /\ NumReported = Min(counts.Failed, 10)
  /\ Len(Failures) = NumReported
  /\ NumReported <= MaxReportedFailures
  /\ LET Missed == SelectSeq(log, IsMismatch)
     IN \A K \in 1 .. NumReported :
          Failures[K] = Failure(Missed[K].InputA, Missed[K].InputB,
                                Missed[K].OutputA, Missed[K].OutputB)
  /\ pc = "iterating" => err = <<>>
  /\ pc = "returned" =>
       /\ Len(err) = NumReported
       /\ \A K \in 1 .. NumReported :
            /\ Len(err[K].a) = call.HexWidth
            /\ HexValue(err[K].a) = Failures[K].InputA
            /\ HexValue(err[K].b) = Failures[K].InputB
            /\ HexValue(err[K].implA) = Failures[K].OutputA.Bits
            /\ HexValue(err[K].implB) = Failures[K].OutputB.Bits

\* more mismatches than slots, with a pass before the buffer filled up
C13_Witness ==
  /\ pc = "returned"
  /\ counts.Failed > MaxReportedFailures
  /\ Len(err) = MaxReportedFailures
  /\ \E N \in 1 .. Len(log) :
       /\ log[N].Ok
       /\ Cardinality({K \in Mismatches : K < N}) \in 1 .. 9

\* C18: combined(TargetedPairs{Values, Count}, RandomPairs{Seed, N})
\* invokes the callback exactly Count*Count + N times: first every ordered
\* pair (Values[i], Values[j]) in row-major order, i outer, j inner, i = j
\* included, and only after all of them the N random pairs; testAgainst
\* returns Total = Count*Count + N.
C18_IterationComposition ==
  /\ \A N \in 1 .. Len(log) :
       IF N <= iter.Count * iter.Count
         THEN /\ log[N].Strategy = "TargetedPairs"
              /\ log[N].InputA = iter.Values[((N - 1) \div iter.Count) + 1]
              /\ log[N].InputB = iter.Values[((N - 1) % iter.Count) + 1]
         ELSE log[N].Strategy = "RandomPairs"
  /\ Len(log) <= iter.Count * iter.Count + iter.N
  /\ pc = "returned" =>
       /\ Len(log) = iter.Count * iter.Count + iter.N
       /\ ret.Total = iter.Count * iter.Count + iter.N

\* both strategies have run: all pairs of several values, the diagonal
\* included, then the random pairs
C18_Witness ==
  /\ pc = "returned"
  /\ iter.Count >= 3 /\ iter.N >= 2
  /\ ret.Total = iter.Count * iter.Count + iter.N
  /\ log[iter.Count + 2].InputA = iter.Values[2]
  /\ log[iter.Count + 2].InputB = iter.Values[2]
  /\ log[ret.Total].Strategy = "RandomPairs"

(***************************************************************************)
(* extractField on a storage type, for every width up to the type's width  *)
(***************************************************************************)
\* Widths are scaled by four: the 4-bit type stands for the storage types
\* narrower than int (uint8_t, uint16_t), the 8-bit type for those at least
\* as wide as int (uint32_t, uint64_t, unsigned __int128, unsigned
\* _BitInt(N)).
IntWidth == 8
StorageWidths == {4, 8}

\* the type in which BitsType{1} << Width is evaluated
PromotedWidth(W) == IF W < IntWidth THEN IntWidth ELSE W

\* a shift by the width of the (promoted) left operand or more is
\* undefined: any value of the type may result
ShiftOneLeft(W, Width) ==
  IF Width < PromotedWidth(W)
    THEN {2 ^ Width}
    ELSE 0 .. 2 ^ PromotedWidth(W) - 1

\* the values extractField<BitsType>(Bits, Offset, Width) can return
extractFieldOutcomes(W, Bits, Offset, Width) ==
  IF Width = 0 THEN {0}
  ELSE { BitAnd(Bits \div (2 ^ Offset),
                (One - 1 + 2 ^ PromotedWidth(W)) % (2 ^ PromotedWidth(W)))
           % (2 ^ W) : One \in ShiftOneLeft(W, Width) }

InitExtract ==
  /\ ft = NotInUse
  /\ pc = "call"
  /\ \E W \in StorageWidths :
       \E Bits \in 0 .. 2 ^ W - 1, Offset \in 0 .. W - 1, Width \in 0 .. W :
         /\ Offset + Width <= W
         /\ call = [fn |-> "extractField", StorageWidth |-> W,
                    Bits |-> Bits, Offset |-> Offset, Width |-> Width]
  /\ ret = NotInUse
  /\ CodecIdle /\ HarnessIdle /\ CmpIdle /\ EncIdle /\ OwnIdle

ExtractField ==
  /\ pc = "call"
  /\ ret' \in extractFieldOutcomes(call.StorageWidth, call.Bits,
                                   call.Offset, call.Width)
  /\ pc' = "returned"
  /\ UNCHANGED <<ft, call, codecVars, harnessVars, cmpVars, encVars, ownVars>>

NextExtract == ExtractField

SpecExtract == InitExtract /\ [][NextExtract]_vars

\* C21: extractField(bits, offset, width) returns (bits >> offset) mod
\* 2^width for every width from 1 up to and including the full width of the
\* storage type, and 0 when width is 0; in particular extractField(bits, 0,
\* W) = bits when W is the storage width.
C21_BitFieldExtraction ==
  pc = "returned" =>
    ret = IF call.Width = 0 THEN 0
          ELSE (call.Bits \div (2 ^ call.Offset)) % (2 ^ call.Width)

\* the same for every width below the width of the type in which the mask
\* is computed (all widths of the types narrower than int)
C21_BelowShiftWidth ==
  (pc = "returned" /\ call.Width < PromotedWidth(call.StorageWidth)) =>
    ret = IF call.Width = 0 THEN 0
          ELSE (call.Bits \div (2 ^ call.Offset)) % (2 ^ call.Width)

\* a narrow storage type is read at its full width
C21_NarrowFullWidthReached ==
  /\ pc = "returned"
  /\ call.StorageWidth < IntWidth /\ call.Width = call.StorageWidth
  /\ call.Bits = 2 ^ call.StorageWidth - 1 /\ ret = call.Bits

(***************************************************************************)
(* mpfr_exact.hpp: arithmetic at the working precision. The formats of    *)
(* the model have at most 8 bits in total, and the working precision is    *)
(* twice that, as 256 is twice the 128 bits of the widest format.          *)
(***************************************************************************)
ExactPrecision == 16

\* the finite value Sign * (Z + a fraction) * 2^Exponent rounded to nearest,
\* ties to even, at Prec bits (MPFR_RNDN); Sticky tells a non-zero fraction
RoundNearest(Negative, Z, Sticky, Exponent, Prec) ==
  LET Drop == IF BitLength(Z) > Prec THEN BitLength(Z) - Prec ELSE 0
      Hi == Z \div (2 ^ Drop)
      Lo == Z % (2 ^ Drop)
      Half == IF Drop = 0 THEN 0 ELSE 2 ^ (Drop - 1)
      Up == /\ Drop > 0
            /\ \/ Lo > Half
               \/ Lo = Half /\ (Sticky \/ Hi % 2 = 1)
      W == mpfr_set_z_2exp(IF Up THEN Hi + 1 ELSE Hi, Exponent + Drop)
  IN IF Negative THEN mpfr_neg(W) ELSE W

\* a value of arbitrary width held in a variable of Prec bits
\* (variant: a working precision of a third of the bits)
AtPrecision_third(V, Prec) ==
  IF V.kind # "finite" THEN V
  ELSE RoundNearest(V.neg, V.m, FALSE, V.e, Prec \div 3)

AtPrecision(V, Prec) ==
  IF V.kind # "finite" THEN V
  ELSE RoundNearest(V.neg, V.m, FALSE, V.e, Prec)

\* the quotient of two finite non-zero values as an integer Q and a
\* remainder flag, |A / B| = (Q + fraction) * 2^(A.e - B.e - Shift), with
\* Q of at least Bits + 2 bits
QuotientShift(A, B, Bits) == Bits + 2 + BitLength(B.m) - BitLength(A.m)
QuotientInt(A, B, Bits) == (A.m * 2 ^ QuotientShift(A, B, Bits)) \div B.m
QuotientInexact(A, B, Bits) ==
  (A.m * 2 ^ QuotientShift(A, B, Bits)) % B.m # 0

\* mpfr_div(Result, A, B, MPFR_RNDN) with a Result of Prec bits
mpfr_div(A, B, Prec) ==
  IF isNan(A) \/ isNan(B) THEN NaN
  ELSE IF (isInf(A) /\ isInf(B)) \/ (isZero(A) /\ isZero(B)) THEN NaN
  ELSE IF isInf(A) \/ isZero(B) THEN Inf(A.neg # B.neg)
  ELSE IF isInf(B) \/ isZero(A) THEN Zero(A.neg # B.neg)
  ELSE RoundNearest(A.neg # B.neg, QuotientInt(A, B, Prec),
                    QuotientInexact(A, B, Prec),
                    A.e - B.e - QuotientShift(A, B, Prec), Prec)

\* oracle::mpfrExactOp(Operation, A, B): every operation rounds its result
\* to the ExactPrecision bits of the MpfrFloat that receives it
mpfrExactOp(Operation, A, B) ==
  CASE Operation = "Add" -> AtPrecision(mpfr_add(A, B), ExactPrecision)
    [] Operation = "Sub" -> AtPrecision(mpfr_sub(A, B), ExactPrecision)
    [] Operation = "Mul" -> AtPrecision(mpfr_mul(A, B), ExactPrecision)
    [] Operation = "Div" -> mpfr_div(A, B, ExactPrecision)

ExactOps == {"Add", "Sub", "Mul", "Div"}

\* FastFloat<1, 6>: the widest significand of an 8-bit format
PrecisionTypes == {fp6_e3m2, fp8_e4m3, FastFloat(1, 6)}

IsFiniteInput(FloatType, Bits) ==
  decodeToMpfr(FloatType, Bits).kind \in {"finite", "zero"}

\* the operands: A of either sign for the narrow type, of positive sign
\* for the 8-bit types (an operation on -A and -B gives the negated result)
InitPrecision ==
  /\ ft \in PrecisionTypes
  /\ pc = "call"
  /\ \E o \in ExactOps, a \in Patterns(ft), b \in Patterns(ft) :
       /\ IsFiniteInput(ft, a) /\ IsFiniteInput(ft, b)
       /\ ft.format.total_bits = 8 => a < 2 ^ ft.format.sign_offset
       /\ call = [fn |-> "mpfrExactOp", O |-> o, A |-> a, B |-> b]
  /\ ret = NotInUse
  /\ CodecIdle /\ HarnessIdle /\ CmpIdle /\ EncIdle /\ OwnIdle

\* MpfrFloat Exact = mpfrExactOp(Op, decodeToMpfr(A), decodeToMpfr(B));
\* Bits = mpfrRoundToFormat(Exact)
ExactOpAndRound ==
  /\ pc = "call" /\ call.fn = "mpfrExactOp"
  /\ val' = mpfrExactOp(call.O, decodeToMpfr(ft, call.A),
                        decodeToMpfr(ft, call.B))
  /\ ret' = mpfrRoundToFormat(ft, val')
  /\ pc' = "returned"
  /\ UNCHANGED <<ft, call, input, bits, out, back, harnessVars, cmpVars,
                 encVars, ownVars>>

NextPrecision == ExactOpAndRound

SpecPrecision == InitPrecision /\ [][NextPrecision]_vars

\* the exact result of the operation on the two operands of the call, or,
\* for an inexact quotient, a value strictly between the two neighbouring
\* values of UnroundedBits bits around it: no value of a format of the
\* model and no midpoint of two of them lies between that value and the
\* quotient
UnroundedBits == ExactPrecision + 4
UnroundedResult ==
  LET A == decodeToMpfr(ft, call.A)
      B == decodeToMpfr(ft, call.B)
  IN CASE call.O = "Add" -> mpfr_add(A, B)
       [] call.O = "Sub" -> mpfr_sub(A, B)
       [] call.O = "Mul" -> mpfr_mul(A, B)
       [] call.O = "Div" ->
            IF A.kind = "finite" /\ B.kind = "finite"
                 /\ QuotientInexact(A, B, UnroundedBits)
              THEN [kind |-> "finite", neg |-> (A.neg # B.neg),
                    m |-> 2 * QuotientInt(A, B, UnroundedBits) + 1,
                    e |-> A.e - B.e - QuotientShift(A, B, UnroundedBits) - 1]
              ELSE mpfr_div(A, B, UnroundedBits)

\* C23: for add, sub, mul and div on any two finite inputs, computing the
\* operation at the working precision (round to nearest) and then rounding
\* to the format gives the same bits as rounding the exact real result to
\* the format directly: the working precision causes no double rounding.
C23_NoDoubleRounding ==
  (pc = "returned" /\ call.fn = "mpfrExactOp") =>
    ret = mpfrRoundToFormat(ft, UnroundedResult)

\* an operation whose result does not fit the working precision: the value
\* handed to the rounder is not the exact result
C23_WorkingPrecisionRounded ==
  /\ pc = "returned" /\ call.fn = "mpfrExactOp"
  /\ call.O = "Add"
  /\ val # UnroundedResult
  /\ val.kind = "finite"

C23_QuotientRounded ==
  /\ pc = "returned" /\ call.fn = "mpfrExactOp"
  /\ call.O = "Div"
  /\ val.kind = "finite" /\ val # UnroundedResult
  /\ ft = FastFloat(1, 6)

(***************************************************************************)
(* Rounding that carries into the next binade                              *)
(***************************************************************************)
\* floor(log2 |V|) of a finite value
BinadeOf(V) == V.e + BitLength(V.m) - 1

\* |V| lies in the normal range and is at least the midpoint between the
\* largest value of its binade and the next power of two
RoundsUpToNextBinade(FloatType, V) ==
  /\ V.kind = "finite"
  /\ BinadeOf(V) >= EminIeee(FloatType)
  /\ 2 * Abs(OnGrid(FloatType, V)) >=
       (2 ^ (RoundingMantBits(FloatType) + 2) - 1)
         * 2 ^ (BinadeOf(V) - RoundingMantBits(FloatType) - GridExp(FloatType))

\* |V| lies below the normal range and is at least the midpoint between the
\* largest subnormal and the smallest normal 2^(1 - bias)
RoundsUpToSmallestNormal(FloatType, V) ==
  /\ V.kind = "finite"
  /\ BinadeOf(V) < EminIeee(FloatType)
  /\ 2 * Abs(OnGrid(FloatType, V)) >=
       (2 ^ (RoundingMantBits(FloatType) + 1) - 1)
         * 2 ^ (EminIeee(FloatType) - RoundingMantBits(FloatType)
                  - GridExp(FloatType))

\* the word with the given sign, exponent field StoredExp and a significand
\* of exactly one: fraction zero, leading bit set where it is stored
PowerOfTwoWord(FloatType, Negative, StoredExp) ==
  (IF Negative THEN 2 ^ FloatType.format.sign_offset ELSE 0)
    + StoredExp * 2 ^ FloatType.format.exp_offset
    + (IF FloatType.encoding.has_implicit_bit THEN 0
       ELSE JBitOf(FloatType) * 2 ^ FloatType.format.mant_offset)

\* the result on overflow: the signed infinity of a format that reserves an
\* exponent for it, the all-zero word otherwise
OverflowWord(FloatType, Negative) ==
  IF FloatType.encoding.inf_encoding = "ReservedExponent"
    THEN PowerOfTwoWord(FloatType, Negative, AllOnesExp(FloatType))
    ELSE 0

\* C24: a finite value of [2^E, 2^(E+1)) in the normal range that rounds up
\* to 2^(E+1) gives the pattern with exponent field E+1+bias and zero
\* fraction (leading bit set in an explicit-bit format), or the overflow
\* result when E+1+bias exceeds the largest finite exponent; a value of the
\* subnormal range that rounds up to 2^(1-bias) gives the smallest normal
\* (exponent field 1, fraction 0, leading bit set where explicit). The sign
\* bit is the sign of the value.
C24_BinadeCarry ==
  Rounded =>
    /\ RoundsUpToNextBinade(ft, val) =>
         out = IF BinadeOf(val) + 1 + exponent_bias(ft) > MaxBiasedExp(ft)
                 THEN OverflowWord(ft, val.neg)
                 ELSE PowerOfTwoWord(ft, val.neg,
                                     BinadeOf(val) + 1 + exponent_bias(ft))
    /\ RoundsUpToSmallestNormal(ft, val) =>
         out = PowerOfTwoWord(ft, val.neg, 1)

\* a negative value strictly between two values of the format is rounded
\* up in magnitude into the next binade
C24_CarryReached ==
  /\ Rounded /\ RoundsUpToNextBinade(ft, val)
  /\ val.neg /\ val.m > 2 ^ (RoundingMantBits(ft) + 1)
  /\ out = PowerOfTwoWord(ft, TRUE, BinadeOf(val) + 1 + exponent_bias(ft))
  /\ ExpField(ft, out) <= MaxBiasedExp(ft)

C24_SmallestNormalReached ==
  /\ Rounded /\ RoundsUpToSmallestNormal(ft, val)
  /\ ~ft.encoding.has_implicit_bit
  /\ out = PowerOfTwoWord(ft, val.neg, 1)

C24_CarryOverflowReached ==
  /\ Rounded /\ RoundsUpToNextBinade(ft, val)
  /\ BinadeOf(val) + exponent_bias(ft) = MaxBiasedExp(ft)
  /\ out = OverflowWord(ft, val.neg)

(***************************************************************************)
(* Ownership of the MPFR and GMP values. An MpfrFloat holds an mpfr_t      *)
(* whose limbs are allocated by mpfr_init2 and released by mpfr_clear; an  *)
(* allocation is identified by a number that is never handed out twice.    *)
(***************************************************************************)
NumObjects == 3
MaxAllocs == 5
MaxTemps == 2

ObjIds == 1 .. NumObjects
AllocIds == 1 .. MaxAllocs

Unallocated == [inits |-> 0, clears |-> 0, nan |-> FALSE]

\* the allocator's next block
FreshAlloc(H) ==
  CHOOSE a \in AllocIds :
    H[a].inits = 0 /\ \A b \in AllocIds : H[b].inits = 0 => a <= b
HasFresh(H) == \E a \in AllocIds : H[a].inits = 0

\* mpfr_init2(X.Val, Prec): X.Val refers to a new allocation, value NaN
mpfr_init2(St, X, Prec) ==
  [objects |-> [St.objects EXCEPT ![X].Val = FreshAlloc(St.heap)],
   heap |-> [St.heap EXCEPT ![FreshAlloc(St.heap)] =
               [inits |-> 1, clears |-> 0, nan |-> TRUE]]]

\* mpfr_clear(X.Val): the allocation X.Val refers to is released
mpfr_clear(St, X) ==
  [St EXCEPT !.heap[St.objects[X].Val] =
     [inits |-> @.inits, clears |-> @.clears + 1, nan |-> FALSE]]

mpfr_set_nan(St, X) ==
  [St EXCEPT !.heap[St.objects[X].Val].nan = TRUE]

\* Val[0] = Other.Val[0]: the struct is copied, limb pointer included
CopyStruct(St, This, Other) ==
  [St EXCEPT !.objects[This].Val = St.objects[Other].Val]

\* MpfrFloat(mpfr_prec_t prec = ExactPrecision)
Constructor(St, This) ==
  mpfr_init2([St EXCEPT !.objects[This].alive = TRUE], This, ExactPrecision)

\* ~MpfrFloat()
Destructor(St, This) ==
  [mpfr_clear(St, This) EXCEPT !.objects[This] =
     [alive |-> FALSE, Val |-> 0]]

\* the run exercises the MpfrFloat operations (pc = "objects") or the
\* temporaries of the two codec functions (pc = "codec")

\* (variant: the source keeps its limbs after the move)
MoveConstructor_shared(St, This, Other) ==
  CopyStruct([St EXCEPT !.objects[This].alive = TRUE], This, Other)

\* MpfrFloat(MpfrFloat &&Other)
MoveConstructor(St, This, Other) ==
  mpfr_set_nan(
    mpfr_init2(
      CopyStruct([St EXCEPT !.objects[This].alive = TRUE], This, Other),
      Other, 2),
    Other)

\* (variant: the target's own value is not cleared before it is replaced)
MoveAssign_noClear(St, This, Other) ==
  IF This # Other
    THEN mpfr_set_nan(mpfr_init2(CopyStruct(St, This, Other), Other, 2),
                      Other)
    ELSE St

\* MpfrFloat &operator=(MpfrFloat &&Other)
MoveAssign(St, This, Other) ==
  IF This # Other
    THEN mpfr_set_nan(
           mpfr_init2(CopyStruct(mpfr_clear(St, This), This, Other),
                      Other, 2),
           Other)
    ELSE St

\* the mpz_init and mpz_clear calls of decodeToMpfr up to its return: the
\* mantissa is converted through an mpz_t only in phase 5
decodeToMpfr_mpz(FloatType, Bits) ==
  LET V == decodeToMpfr(FloatType, Bits)
  IN IF \/ V.kind = "finite"
        \/ V.kind = "zero" /\ MagnitudeFields(FloatType, Bits) # <<0, 0>>
       THEN <<"mpz_init", "mpz_clear">>
       ELSE <<>>

\* the mpz_init and mpz_clear calls of mpfrRoundToFormat up to its return:
\* none for NaN, infinity and zero, one pair in the normal and one in the
\* subnormal branch, before the overflow and underflow returns
mpfrRoundToFormat_mpz(FloatType, Val) ==
  IF Val.kind = "finite" THEN <<"mpz_init", "mpz_clear">> ELSE <<>>

CountOf(Events, Name) ==
  Cardinality({i \in 1 .. Len(Events) : Events[i] = Name})

OwnershipTypes == {fp6_e3m2, extFloat7, pdp10}

InitOwnership ==
  /\ ft = NotInUse
  /\ pc \in {"objects", "codec"}
  /\ objects = [o \in ObjIds |-> [alive |-> FALSE, Val |-> 0]]
  /\ heap = [a \in AllocIds |-> Unallocated]
  /\ mpz = [inits |-> 0, clears |-> 0]
  /\ last = [op |-> "none", This |-> 0, Other |-> 0]
  /\ CodecIdle /\ CallIdle /\ HarnessIdle /\ CmpIdle /\ EncIdle

OwnershipStep(St, Operation, This, Other) ==
  /\ pc = "objects"
  /\ objects' = St.objects
  /\ heap' = St.heap
  /\ last' = [op |-> Operation, This |-> This, Other |-> Other]
  /\ UNCHANGED <<ft, pc, mpz, codecVars, callVars, harnessVars, cmpVars,
                 encVars>>

Construct ==
  \E This \in ObjIds :
    /\ ~objects[This].alive /\ HasFresh(heap)
    /\ OwnershipStep(Constructor([objects |-> objects, heap |-> heap], This),
                     "construct", This, 0)

MoveConstruct ==
  \E This \in ObjIds, Other \in ObjIds :
    /\ ~objects[This].alive /\ objects[Other].alive /\ HasFresh(heap)
    /\ OwnershipStep(
         MoveConstructor([objects |-> objects, heap |-> heap], This, Other),
         "move-construct", This, Other)

MoveAssignment ==
  \E This \in ObjIds, Other \in ObjIds :
    /\ objects[This].alive /\ objects[Other].alive
    /\ This # Other => HasFresh(heap)
    /\ OwnershipStep(
         MoveAssign([objects |-> objects, heap |-> heap], This, Other),
         "move-assign", This, Other)

Destroy ==
  \E This \in ObjIds :
    /\ objects[This].alive
    /\ OwnershipStep(Destructor([objects |-> objects, heap |-> heap], This),
                     "destroy", This, 0)

\* an MPFR call that stores a number in the value (mpfr_set_z_2exp, ...)
StoreNumber ==
  \E This \in ObjIds :
    /\ objects[This].alive /\ heap[objects[This].Val].nan
    /\ OwnershipStep(
         [objects |-> objects,
          heap |-> [heap EXCEPT ![objects[This].Val].nan = FALSE]],
         "store", This, 0)

TemporariesStep(Events, Fn) ==
  /\ pc = "codec"
  /\ mpz.inits + CountOf(Events, "mpz_init") <= MaxTemps
  /\ mpz' = [inits |-> mpz.inits + CountOf(Events, "mpz_init"),
             clears |-> mpz.clears + CountOf(Events, "mpz_clear")]
  /\ last' = [op |-> Fn, This |-> Len(Events), Other |-> 0]
  /\ UNCHANGED <<ft, pc, objects, heap, codecVars, callVars, harnessVars,
                 cmpVars, encVars>>

DecodeTemporaries ==
  \E FloatType \in OwnershipTypes :
    \E Bits \in Patterns(FloatType) :
      TemporariesStep(decodeToMpfr_mpz(FloatType, Bits), "decodeToMpfr")

RoundTemporaries ==
  \E FloatType \in OwnershipTypes :
    \E Val \in {NaN, Inf(TRUE), Zero(FALSE),
                decodeToMpfr(FloatType, 2 ^ FloatType.format.exp_offset),
                mpfr_set_z_2exp(1, 2 * FloatType.format.total_bits),
                mpfr_set_z_2exp(1, 0 - 2 * FloatType.format.total_bits)} :
      TemporariesStep(mpfrRoundToFormat_mpz(FloatType, Val),
                      "mpfrRoundToFormat")

NextOwnership ==
  \/ Construct \/ MoveConstruct \/ MoveAssignment \/ Destroy \/ StoreNumber
  \/ DecodeTemporaries \/ RoundTemporaries

SpecOwnership == InitOwnership /\ [][NextOwnership]_vars

Owners(A) == {o \in ObjIds : objects[o].alive /\ objects[o].Val = A}

\* C25: over any sequence of MpfrFloat operations (construct,
\* move-construct, move-assign including self-move-assign, destroy) every
\* allocated value is cleared exactly once: no allocation is cleared twice,
\* every allocation not yet cleared belongs to exactly one live object
\* (none is leaked, no two objects share limb storage), so that all are
\* cleared once when the objects are gone; the source of a move is left a
\* valid NaN; and every mpz_init of decodeToMpfr and mpfrRoundToFormat is
\* matched by one mpz_clear on every return path.
C25_ValueOwnership ==
  (pc \in {"objects", "codec"}) =>
    /\ \A a \in AllocIds :
         /\ heap[a].clears <= heap[a].inits
         /\ (heap[a].inits = 1 /\ heap[a].clears = 0)
              => Cardinality(Owners(a)) = 1
         /\ (heap[a].inits = 0 \/ heap[a].clears = 1) => Owners(a) = {}
    /\ \A o \in ObjIds : objects[o].alive => objects[o].Val \in AllocIds
    /\ (last.op \in {"move-construct", "move-assign"}
          /\ last.This # last.Other)
         => /\ objects[last.Other].alive
            /\ heap[objects[last.Other].Val].nan
            /\ heap[objects[last.Other].Val].clears = 0
    /\ mpz.inits = mpz.clears

\* all objects are gone after moves between them, and every allocation
\* made has been cleared
C25_AllClearedReached ==
  /\ pc = "objects"
  /\ \A o \in ObjIds : ~objects[o].alive
  /\ \A a \in AllocIds : heap[a].inits = 1 /\ heap[a].clears = 1
  /\ last.op = "destroy"

\* a self-move-assignment of an object holding a number
C25_SelfMoveReached ==
  /\ pc = "objects"
  /\ last.op = "move-assign" /\ last.This = last.Other
  /\ ~heap[objects[last.This].Val].nan

\* a move-assignment has replaced (and cleared) the target's own value
C25_MoveAssignReached ==
  /\ pc = "objects"
  /\ last.op = "move-assign" /\ last.This # last.Other
  /\ ~heap[objects[last.This].Val].nan
  /\ \E a \in AllocIds : heap[a].clears = 1

C25_TemporaryReached ==
  pc = "codec" /\ mpz.inits = MaxTemps /\ last.op = "mpfrRoundToFormat"

(***************************************************************************)
(* The comparator's NaN test against the decoders                          *)
(***************************************************************************)
\* C26: for every format and every bit pattern of total_bits bits,
\* NanAwareBitExact::isNan is true exactly when decodeToMpfr (either copy)
\* returns NaN.
C26_NanTestAgreesWithDecoder ==
  Decoded =>
    /\ NanAwareBitExact_isNan(ft, bits) <=> isNan(val)
    /\ NanAwareBitExact_isNan(ft, bits)
         <=> isNan(testing_decodeToMpfr(ft, bits))

\* the agreement holds where the mantissa field starts at bit 0 and the
\* leading bit is implicit
C26_NanTestStandardImplicit ==
  (Decoded /\ ft.format.mant_offset = 0 /\ ft.encoding.has_implicit_bit) =>
    /\ NanAwareBitExact_isNan(ft, bits) <=> isNan(val)
    /\ NanAwareBitExact_isNan(ft, bits)
         <=> isNan(testing_decodeToMpfr(ft, bits))

\* the canonical infinity of an explicit-bit format passes the NaN test
C26_InfinityTakenForNan ==
  /\ Decoded /\ ~ft.encoding.has_implicit_bit
  /\ isInf(val) /\ isInf(testing_decodeToMpfr(ft, bits))
  /\ NanAwareBitExact_isNan(ft, bits)

(***************************************************************************)
(* The two copies of the codec                                             *)
(***************************************************************************)
\* C27: for every format and every bit pattern oracle::decodeToMpfr and
\* testing::decodeToMpfr return the same classification or the same finite
\* value, every max-exponent pattern of an explicit-bit format included,
\* and the two mpfrRoundToFormat copies return the same bits for every
\* value.
C27_CodecCopiesEquivalent ==
  /\ Decoded => testing_decodeToMpfr(ft, bits) = val
  /\ Rounded => testing_mpfrRoundToFormat(ft, val) = out

\* the pseudo-infinity of an explicit-bit format: largest exponent field,
\* magnitude mantissa field zero
IsPseudoInfinity(FloatType, Bits) ==
  /\ ~FloatType.encoding.has_implicit_bit
  /\ FloatType.encoding.inf_encoding = "ReservedExponent"
  /\ MagnitudeFields(FloatType, Bits) = <<AllOnesExp(FloatType), 0>>

\* the two decoders agree on every other pattern
C27_EquivalentExceptPseudoInfinity ==
  (Decoded /\ ~IsPseudoInfinity(ft, bits)) =>
    testing_decodeToMpfr(ft, bits) = val

C27_PseudoInfinityDiffers ==
  /\ Decoded /\ IsPseudoInfinity(ft, bits)
  /\ isZero(val) /\ isInf(testing_decodeToMpfr(ft, bits))

(***************************************************************************)
(* Monotonicity of rounding                                                *)
(***************************************************************************)
\* decodeToMpfr(mpfrRoundToFormat(V))
RoundedValue(FloatType, V) ==
  decodeToMpfr(FloatType, mpfrRoundToFormat(FloatType, V))

\* C28: for an IEEE754-encoded format and any two exact values x <= y
\* (finite or infinite, not NaN), decodeToMpfr(mpfrRoundToFormat(x)) <=
\* decodeToMpfr(mpfrRoundToFormat(y)) in the extended reals. x is the value
\* of the run, y ranges over all exact values of the model.
C28_RoundingMonotone ==
  (pc = "done" /\ IsIEEE754(ft) /\ ~isNan(val)) =>
    \A y \in ExactValues(ft) :
      mpfr_lessequal_p(val, y) => mpfr_lessequal_p(back, RoundedValue(ft, y))

\* a value that is rounded to the largest finite value has a larger
\* neighbour that overflows to infinity
C28_OverflowNeighbourReached ==
  /\ pc = "done" /\ IsIEEE754(ft)
  /\ val.kind = "finite" /\ back.kind = "finite" /\ back # val
  /\ \E y \in ExactValues(ft) :
       /\ y.kind = "finite" /\ mpfr_less_p(val, y)
       /\ isInf(RoundedValue(ft, y))

\* a value below the smallest normal is rounded to a subnormal while a
\* larger value of the subnormal range is rounded to the smallest normal
C28_SubnormalBoundaryReached ==
  /\ pc = "done" /\ IsIEEE754(ft) /\ ft.format.mant_offset > 0
  /\ val.kind = "finite" /\ ~val.neg /\ back.kind = "finite"
  /\ ExpField(ft, out) = 0
  /\ \E y \in ExactValues(ft) :
       /\ RoundsUpToSmallestNormal(ft, y) /\ mpfr_less_p(val, y)
       /\ mpfr_less_p(back, RoundedValue(ft, y))

(***************************************************************************)
(* Well-formed results of the rounder                                      *)
(***************************************************************************)
\* the bits of the word that belong to the sign, exponent or mantissa field
FieldsMask(FloatType) ==
  LET Fmt == FloatType.format
  IN (2 ^ Fmt.sign_bits - 1) * 2 ^ Fmt.sign_offset
       + (2 ^ Fmt.exp_bits - 1) * 2 ^ Fmt.exp_offset
       + (2 ^ Fmt.mant_bits - 1) * 2 ^ Fmt.mant_offset

\* the canonical patterns of infinity and NaN under a reserved exponent:
\* largest exponent field, fraction zero resp. only the quiet bit of the
\* mantissa field, leading bit set where it is stored
CanonicalSpecials(FloatType) ==
  LET Fmt == FloatType.format
      QuietBit == IF FloatType.encoding.has_implicit_bit
                    THEN 2 ^ (Fmt.mant_bits - 1) ELSE 2 ^ (Fmt.mant_bits - 2)
  IN (IF FloatType.encoding.inf_encoding = "ReservedExponent"
        THEN {PowerOfTwoWord(FloatType, s, AllOnesExp(FloatType)) :
                s \in BOOLEAN}
        ELSE {})
     \cup
     (IF FloatType.encoding.nan_encoding = "ReservedExponent"
        THEN {PowerOfTwoWord(FloatType, FALSE, AllOnesExp(FloatType))
                + QuietBit * 2 ^ Fmt.mant_offset}
        ELSE {})

\* the largest exponent field among the patterns that decode to a finite
\* value
LargestFiniteExp(FloatType) ==
  LET Fields == { ExpField(FloatType, P) :
                    P \in { Q \in Patterns(FloatType) :
                             decodeToMpfr(FloatType, Q).kind = "finite" } }
  IN CHOOSE F \in Fields : \A G \in Fields : G <= F

\* layouts with unused bits below the mantissa field: sign at bit 7,
\* exponent in bits 4..6, mantissa in bits 2..3, bits 0..1 unused
lowPadded == Float(Format(1, 7, 3, 4, 2, 2, 8), IEEE754)
lowPaddedExplicit == Float(Format(1, 7, 3, 4, 2, 2, 8), X87Extended)
LayoutTypes == {lowPadded, lowPaddedExplicit, padded8, extFloat7}

\* the codec run on these layouts
InitLayout ==
  /\ ft \in LayoutTypes
  /\ pc = "start"
  /\ \/ input = "bits" /\ bits \in Patterns(ft) /\ val = NoValue
     \/ input = "value" /\ bits = NoBits /\ val \in ExactValues(ft)
  /\ out = NoBits
  /\ back = NoValue
  /\ CallIdle /\ HarnessIdle /\ CmpIdle /\ EncIdle /\ OwnIdle

SpecLayout == InitLayout /\ [][Next]_vars

\* C29: the result of mpfrRoundToFormat is a well-formed canonical pattern
\* for every value and format: no bit is set outside the sign, exponent and
\* mantissa fields; the exponent field exceeds the largest finite exponent
\* only in the canonical infinity or the canonical NaN; exponent and
\* mantissa do not spill into a neighbouring field (the sign field of a
\* finite result is the sign of the value, the exponent field is at most
\* one above the value's binade); and in an explicit-bit format a finite
\* non-zero result has its leading bit set exactly when its exponent field
\* is not zero.
C29_WellFormedResult ==
  (pc = "done") =>
    /\ out \in Patterns(ft)
    /\ BitAnd(out, WordMask(ft) - FieldsMask(ft)) = 0
    /\ ExpField(ft, out) > LargestFiniteExp(ft)
         => out \in CanonicalSpecials(ft)
    /\ (val.kind = "finite" /\ back.kind = "finite") =>
         /\ SignField(ft, out) = (IF val.neg THEN 1 ELSE 0)
         /\ ExpField(ft, out) <=
              (IF BinadeOf(val) + exponent_bias(ft) >= 1
                 THEN BinadeOf(val) + exponent_bias(ft) + 1 ELSE 1)
    /\ (~ft.encoding.has_implicit_bit /\ back.kind = "finite") =>
         (BitAnd(MantField(ft, out), JBitOf(ft)) # 0
            <=> ExpField(ft, out) # 0)

\* the same for the results of finite values and zeros
C29_WellFormedFiniteResult ==
  (pc = "done" /\ val.kind \in {"finite", "zero"}
     /\ ExpField(ft, out) <= LargestFiniteExp(ft)) =>
    /\ BitAnd(out, WordMask(ft) - FieldsMask(ft)) = 0
    /\ (val.kind = "finite" /\ back.kind = "finite") =>
         /\ SignField(ft, out) = (IF val.neg THEN 1 ELSE 0)
         /\ ExpField(ft, out) <=
              (IF BinadeOf(val) + exponent_bias(ft) >= 1
                 THEN BinadeOf(val) + exponent_bias(ft) + 1 ELSE 1)
    /\ (~ft.encoding.has_implicit_bit /\ back.kind = "finite") =>
         (BitAnd(MantField(ft, out), JBitOf(ft)) # 0
            <=> ExpField(ft, out) # 0)

\* the NaN result of a layout with unused low bits has one of them set
C29_BitOutsideFieldsReached ==
  /\ pc = "done" /\ isNan(val)
  /\ BitAnd(out, WordMask(ft) - FieldsMask(ft)) # 0

(***************************************************************************)
(* Formats without a negative zero                                         *)
(***************************************************************************)
\* C30: for every encoding with negative_zero = DoesNotExist (any sign
\* scheme, implicit or explicit leading bit) decodeToMpfr returns a
\* negative zero for no bit pattern, patterns with a zero magnitude
\* mantissa, a non-zero exponent field and the sign set included.
C30_NoNegativeZero ==
  (Decoded /\ ft.encoding.negative_zero = "DoesNotExist") =>
    /\ val # Zero(TRUE)
    /\ testing_decodeToMpfr(ft, bits) # Zero(TRUE)

\* the same for the formats with an implicit leading bit
C30_NoNegativeZeroImplicit ==
  (Decoded /\ ft.encoding.negative_zero = "DoesNotExist"
     /\ ft.encoding.has_implicit_bit) =>
    /\ val # Zero(TRUE)
    /\ testing_decodeToMpfr(ft, bits) # Zero(TRUE)

\* a pattern of an implicit-bit format with the sign set and both magnitude
\* fields zero is decoded to +0
C30_ImplicitSignedZeroPattern ==
  /\ Decoded /\ ft.encoding.negative_zero = "DoesNotExist"
  /\ ft.encoding.has_implicit_bit
  /\ SignField(ft, bits) = 1 /\ val = Zero(FALSE)

====
